---- MODULE Spec2Model ----
(***************************************************************************)
(* Job-intake pipeline of career_attendant (api/app/graphs, api/app/routers *)
(* /extract.py): the stage functions ingest, preprocess, extract, summarize *)
(* and persist, and the three drivers that sequence them: the compiled      *)
(* LangGraph state graph, the streaming endpoint and the synchronous        *)
(* endpoint.                                                                *)
(*                                                                          *)
(* Encodings.                                                               *)
(*  - A text is a sequence of chunks.  A chunk is a whitespace character    *)
(*    ("SP", "NL"), an HTML entity ("AMP", "NBSP"), a word of a UI-chrome   *)
(*    phrase ("SHOW", "MORE", ...), a section header ("REQ", ...), or a     *)
(*    block of n ordinary non-space characters ("W51").  len() of a text is *)
(*    the sum of the chunk lengths.                                         *)
(*  - A Python scalar or list is a tagged record: None, Str(s), Num(n),     *)
(*    List(l); Truthy(v) is Python's bool(v).                               *)
(*  - A Python dict is a function whose DOMAIN is the set of keys present.  *)
(*  - A JSON object read by the code is a record with a "shape" field that  *)
(*    tells whether the key was absent, null, an object, or something else. *)
(***************************************************************************)
EXTENDS Integers, Sequences, FiniteSets, TLC

(***************************************************************************)
(* Generic helpers                                                          *)
(***************************************************************************)
None == [t |-> "none", s |-> "", n |-> 0, l |-> << >>]

Str(x) == [t |-> "str", s |-> x, n |-> 0, l |-> << >>]

Num(x) == [t |-> "int", s |-> "", n |-> x, l |-> << >>]

\* a list of strings
List(x) == [t |-> "list", s |-> "", n |-> 0, l |-> x]

\* bool(v)
Truthy(v) == (v.t = "str" /\ v.s # "") \/ (v.t = "int" /\ v.n # 0) \/ (v.t = "list" /\ v.l # << >>)

EmptyDict == [k \in {} |-> None]

\* dict.get(k) : None when the key is absent
Get(d, k) == IF k \in DOMAIN d THEN d[k] ELSE None

\* d[k] = v
Put(d, k, v) == [x \in (DOMAIN d) \cup {k} |-> IF x = k THEN v ELSE d[x]]

\* state.update(result) / dict merge: keys of u override keys of d
Update(d, u) == [x \in (DOMAIN d) \cup (DOMAIN u) |-> IF x \in DOMAIN u THEN u[x] ELSE d[x]]

IsPrefix(s, t) == Len(s) <= Len(t) /\ SubSeq(t, 1, Len(s)) = s

\* s[a:b] of Python with 0-based half-open bounds already converted to 1-based inclusive
Slice(s, a, b) == IF a > b THEN << >> ELSE SubSeq(s, a, b)

\* s[:n]
Take(s, n) == IF Len(s) <= n THEN s ELSE SubSeq(s, 1, n)

(***************************************************************************)
(* Text chunks                                                              *)
(***************************************************************************)
WordLen == [W1 |-> 1, W49 |-> 49, W51 |-> 51, W60 |-> 60, W98 |-> 98, W99 |-> 99]

WordChunks == DOMAIN WordLen

PhraseWordLen == [SHOW |-> 4, MORE |-> 4, LESS |-> 4, EASY |-> 4, APPLY |-> 5, NOW |-> 3]

PhraseWords == DOMAIN PhraseWordLen

\* header chunk -> [name: canonical section, len: characters of the header text]
SECTION_PATTERNS == [ABOUT |-> [name |-> "about", len |-> 14],
                     RESP |-> [name |-> "responsibilities", len |-> 16],
                     REQ |-> [name |-> "requirements", len |-> 12],
                     QUAL |-> [name |-> "requirements", len |-> 14],
                     PREF |-> [name |-> "qualifications", len |-> 9],
                     BEN |-> [name |-> "benefits", len |-> 8],
                     ABOUTUS |-> [name |-> "company_info", len |-> 8],
                     ADDL |-> [name |-> "additional", len |-> 22]]

HeaderChunks == DOMAIN SECTION_PATTERNS

\* "SPACES100" is a run of 100 spaces
Whitespace == {"SP", "NL", "SPACES100"}

\* chunks made of word characters (\w), for the \b anchors of the header patterns
WordLike == WordChunks \cup PhraseWords \cup HeaderChunks

ChunkLen(c) ==
    IF c \in WordChunks THEN WordLen[c]
    ELSE IF c \in PhraseWords THEN PhraseWordLen[c]
    ELSE IF c \in HeaderChunks THEN SECTION_PATTERNS[c].len
    ELSE IF c = "AMP" THEN 5
    ELSE IF c = "NBSP" THEN 6
    ELSE IF c = "SPACES100" THEN 100
    ELSE 1

RECURSIVE TextLen(_)
TextLen(t) == IF t = << >> THEN 0 ELSE ChunkLen(Head(t)) + TextLen(Tail(t))

\* str.strip()
RECURSIVE LStrip(_)
LStrip(t) == IF t # << >> /\ Head(t) \in Whitespace THEN LStrip(Tail(t)) ELSE t

RECURSIVE RStrip(_)
RStrip(t) ==
    IF t # << >> /\ t[Len(t)] \in Whitespace THEN RStrip(SubSeq(t, 1, Len(t) - 1)) ELSE t

Strip(t) == RStrip(LStrip(t))

(***************************************************************************)
(* preprocess.py : clean_text                                               *)
(***************************************************************************)
\* html.unescape: "&amp;" -> "&" (one non-space, non-word character),
\* "&nbsp;" -> U+00A0, which \s and strip() treat as whitespace
Unescape(t) ==
    [i \in 1..Len(t) |-> IF t[i] = "AMP" THEN "AMPC" ELSE IF t[i] = "NBSP" THEN "SP" ELSE t[i]]

\* re.sub(r'\s+', ' ', text)
RECURSIVE CollapseWhitespace(_)
CollapseWhitespace(t) ==
    IF t = << >> THEN << >>
    ELSE IF Head(t) \in Whitespace
         THEN << "SP" >> \o CollapseWhitespace(LStrip(t))
         ELSE << Head(t) >> \o CollapseWhitespace(Tail(t))

\* length of the run of "NL" chunks at the head of t
RECURSIVE NewlineRun(_)
NewlineRun(t) == IF t # << >> /\ Head(t) = "NL" THEN 1 + NewlineRun(Tail(t)) ELSE 0

\* re.sub(r'\n{3,}', '\n\n', text)
RECURSIVE CollapseNewlines(_)
CollapseNewlines(t) ==
    IF t = << >> THEN << >>
    ELSE LET n == NewlineRun(t) IN
         IF n >= 3 THEN << "NL", "NL" >> \o CollapseNewlines(SubSeq(t, n + 1, Len(t)))
         ELSE << Head(t) >> \o CollapseNewlines(Tail(t))

\* the alternatives of (show more|show less|easy apply|apply now), (?i)
ArtifactPhrases == { << "SHOW", "SP", "MORE" >>, << "SHOW", "SP", "LESS" >>,
                     << "EASY", "SP", "APPLY" >>, << "APPLY", "SP", "NOW" >> }

\* re.sub(r'(?i)(show more|...)', '', text): leftmost, non-overlapping
RECURSIVE RemoveArtifacts(_)
RemoveArtifacts(t) ==
    IF t = << >> THEN << >>
    ELSE IF Len(t) >= 3 /\ SubSeq(t, 1, 3) \in ArtifactPhrases
         THEN RemoveArtifacts(SubSeq(t, 4, Len(t)))
         ELSE << Head(t) >> \o RemoveArtifacts(Tail(t))

clean_text(text) ==
    IF text = << >> THEN << >>
    ELSE Strip(RemoveArtifacts(CollapseNewlines(CollapseWhitespace(Unescape(text)))))

\* len(text) // 4
count_tokens(text) == TextLen(text) \div 4

detect_language(text) == "en"

\* len(text.split()): maximal runs of non-whitespace chunks
RECURSIVE WordCount(_)
WordCount(t) ==
    IF t = << >> THEN 0
    ELSE IF Head(t) \in Whitespace THEN WordCount(Tail(t))
    ELSE IF Len(t) >= 2 /\ t[2] \notin Whitespace THEN WordCount(Tail(t))
    ELSE 1 + WordCount(Tail(t))

(***************************************************************************)
(* preprocess.py : segment_text                                             *)
(***************************************************************************)
\* a header pattern \b(...)\b matches at chunk i
HeaderAt(t, i) ==
    /\ t[i] \in HeaderChunks
    /\ (i = 1 \/ t[i - 1] \notin WordLike)
    /\ (i = Len(t) \/ t[i + 1] \notin WordLike)

\* section_starts after the sort by position: the indices of the matches, ascending
RECURSIVE SectionStartsFrom(_, _)
SectionStartsFrom(t, i) ==
    IF i > Len(t) THEN << >>
    ELSE IF HeaderAt(t, i) THEN << i >> \o SectionStartsFrom(t, i + 1)
    ELSE SectionStartsFrom(t, i + 1)

SectionStarts(t) == SectionStartsFrom(t, 1)

\* the loop "for i, (start_pos, section_name, header) in enumerate(section_starts)"
\* acc = [segments, section_count]
RECURSIVE SegmentLoop(_, _, _, _)
SegmentLoop(t, starts, i, acc) ==
    IF i > Len(starts) THEN acc
    ELSE LET start_pos == starts[i]
             section_name == SECTION_PATTERNS[t[start_pos]].name
             end_pos == IF i + 1 <= Len(starts) THEN starts[i + 1] - 1 ELSE Len(t)
             content == Strip(Slice(t, start_pos + 1, end_pos))
             take == /\ TextLen(content) > 50
                     /\ (section_name \notin DOMAIN acc.segments
                          \/ TextLen(content) > TextLen(acc.segments[section_name]))
         IN SegmentLoop(t, starts, i + 1,
                        IF take
                        THEN [segments |-> Put(acc.segments, section_name, content),
                              section_count |-> acc.section_count + 1]
                        ELSE acc)

segment_text(text) ==
    SegmentLoop(text, SectionStarts(text), 1,
                [segments |-> [k \in {"full_text"} |-> text], section_count |-> 0])

(***************************************************************************)
(* Completion responses: text, fence stripping and json.loads               *)
(*                                                                          *)
(* A response text is a sequence of tokens: "FENCE" is three backticks,     *)
(* "JSON" the letters json, "NLT" a newline, "PROSE" free text that is not  *)
(* JSON, and every other token is a piece of JSON text.                     *)
(***************************************************************************)
AbsentObj == [shape |-> "absent"]

AbsentLocation == [shape |-> "absent", city |-> None, state_province |-> None,
                   country |-> None, remote_policy |-> None]

AbsentMetadata == [shape |-> "absent", job_title |-> None, company_name |-> None,
                   industry |-> None, employment_type |-> None, location |-> AbsentLocation]

AbsentYears == [shape |-> "absent", minimum |-> None, maximum |-> None]

AbsentExperience == [shape |-> "absent", years_required |-> AbsentYears, seniority_level |-> None]

AbsentSalary == [shape |-> "absent", min |-> None, max |-> None, currency |-> None, period |-> None]

AbsentCompensation == [shape |-> "absent", salary |-> AbsentSalary]

AbsentSkills == [shape |-> "absent", technical_skills |-> [shape |-> "absent", items |-> << >>]]

\* overall_confidence is kept in percent: 0.7 is 70
AbsentConfidence == [shape |-> "absent", overall_confidence |-> [shape |-> "absent", pct |-> 0]]

\* the parsed value {} : a JSON object without any of the keys the code reads
EmptyAnalysis == [top |-> "object",
                  metadata |-> AbsentMetadata,
                  experience_profile |-> AbsentExperience,
                  compensation |-> AbsentCompensation,
                  skills_breakdown |-> AbsentSkills,
                  parsing_confidence |-> AbsentConfidence,
                  requirements |-> 0]

Confidence(p) == [shape |-> "object", overall_confidence |-> [shape |-> "number", pct |-> p]]

Skill(n, r) == [shape |-> "object", has_name |-> TRUE, skill_name |-> n, is_required |-> r]

Meta(title, company) ==
    [AbsentMetadata EXCEPT !.shape = "object", !.job_title = title, !.company_name = company]

\* {"metadata": {"job_title": "Senior Backend Engineer", "company_name": "Acme"},
\*  "parsing_confidence": {"overall_confidence": 0.9}, "requirements": [.., ..]}
DocTitleHigh == [EmptyAnalysis EXCEPT !.metadata = Meta(Str("Senior Backend Engineer"), Str("Acme")),
                                      !.parsing_confidence = Confidence(90),
                                      !.requirements = 2]

\* the same with overall_confidence 0.5
DocTitleMedium == [DocTitleHigh EXCEPT !.parsing_confidence = Confidence(50)]

\* {"metadata": {"job_title": null, "industry": "fintech"}} : confidence defaults to 0.5
DocIndustryOnly == [EmptyAnalysis EXCEPT !.metadata = [Meta(None, None) EXCEPT !.industry = Str("fintech")]]

\* {"experience_profile": {"years_required": {"minimum": 5}}, "parsing_confidence": {..0.9}}
DocYears == [EmptyAnalysis EXCEPT
                !.experience_profile = [shape |-> "object",
                                        years_required |-> [shape |-> "object", minimum |-> Num(5), maximum |-> None],
                                        seniority_level |-> None],
                !.parsing_confidence = Confidence(90)]

\* {"skills_breakdown": {"technical_skills": [{python, required}, {go, optional}]}}
DocSkills == [EmptyAnalysis EXCEPT
                !.skills_breakdown = [shape |-> "object",
                                      technical_skills |-> [shape |-> "list",
                                                            items |-> << Skill("python", TRUE), Skill("go", FALSE) >>]]]

\* {"metadata": {"location": {"city": "Berlin", "country": "DE", "remote_policy": "hybrid_fixed"},
\*               "employment_type": "full_time"},
\*  "compensation": {"salary": {"min": 0, "max": 90000, "currency": "EUR"}}}
DocLocation == [EmptyAnalysis EXCEPT
                  !.metadata = [Meta(None, None) EXCEPT
                                   !.employment_type = Str("full_time"),
                                   !.location = [shape |-> "object", city |-> Str("Berlin"),
                                                 state_province |-> None, country |-> Str("DE"),
                                                 remote_policy |-> Str("hybrid_fixed")]],
                  !.compensation = [shape |-> "object",
                                    salary |-> [shape |-> "object", min |-> Num(0), max |-> Num(90000),
                                                currency |-> Str("EUR"), period |-> None]]]

\* {"metadata": null}
DocMetadataNull == [EmptyAnalysis EXCEPT !.metadata = [AbsentMetadata EXCEPT !.shape = "null"]]

\* {"compensation": {"salary": null}}
DocSalaryNull == [EmptyAnalysis EXCEPT
                    !.compensation = [shape |-> "object", salary |-> [AbsentSalary EXCEPT !.shape = "null"]]]

\* {"skills_breakdown": {"technical_skills": [{"is_required": true}]}} : entry without skill_name
DocSkillNoName == [EmptyAnalysis EXCEPT
                     !.skills_breakdown = [shape |-> "object",
                                           technical_skills |-> [shape |-> "list",
                                                                 items |-> << [Skill("", TRUE) EXCEPT !.has_name = FALSE] >>]]]

\* {"metadata": {"job_title": "QA"}, "parsing_confidence": {"overall_confidence": null}}
DocConfidenceNull == [EmptyAnalysis EXCEPT
                        !.metadata = Meta(Str("QA"), None),
                        !.parsing_confidence = [shape |-> "object",
                                                overall_confidence |-> [shape |-> "null", pct |-> 0]]]

\* {"metadata": {"job_title": S}} where the string S is an empty JSON object between two fences
DocFenceInString == [EmptyAnalysis EXCEPT !.metadata = Meta(Str("FENCE{}FENCE"), None)]

\* a top-level value that is not an object: [], "text", 3, null
NonObject(t) == [EmptyAnalysis EXCEPT !.top = t]

\* json.loads on the texts of the model: text -> parsed value
JsonTexts == [ j_empty |-> EmptyAnalysis,
               j_title_high |-> DocTitleHigh,
               j_title_medium |-> DocTitleMedium,
               j_industry |-> DocIndustryOnly,
               j_years |-> DocYears,
               j_skills |-> DocSkills,
               j_location |-> DocLocation,
               j_metadata_null |-> DocMetadataNull,
               j_salary_null |-> DocSalaryNull,
               j_skill_noname |-> DocSkillNoName,
               j_confidence_null |-> DocConfidenceNull,
               j_array |-> NonObject("array"),
               j_null |-> NonObject("null") ]

\* the text of DocFenceInString is three pieces of JSON text around two fences
FenceInStringText == << "j_q_open", "FENCE", "j_empty", "FENCE", "j_q_close" >>

\* json.loads(text): [ok, value]; ok = FALSE is json.JSONDecodeError
json_loads(text) ==
    IF Len(text) = 1 /\ text[1] \in DOMAIN JsonTexts
    THEN [ok |-> TRUE, value |-> JsonTexts[text[1]]]
    ELSE IF text = FenceInStringText
    THEN [ok |-> TRUE, value |-> DocFenceInString]
    ELSE [ok |-> FALSE, value |-> EmptyAnalysis]

TextWhitespace == {"NLT"}

RECURSIVE LStripText(_)
LStripText(t) == IF t # << >> /\ Head(t) \in TextWhitespace THEN LStripText(Tail(t)) ELSE t

RECURSIVE RStripText(_)
RStripText(t) ==
    IF t # << >> /\ t[Len(t)] \in TextWhitespace THEN RStripText(SubSeq(t, 1, Len(t) - 1)) ELSE t

StripText(t) == RStripText(LStripText(t))

\* index of the first "FENCE" at or after i, Len(t) + 1 if none
RECURSIVE FindFence(_, _)
FindFence(t, i) ==
    IF i > Len(t) THEN Len(t) + 1
    ELSE IF t[i] = "FENCE" THEN i ELSE FindFence(t, i + 1)

\* index of the first "FENCE","JSON" pair at or after i, Len(t) + 1 if none
RECURSIVE FindJsonFence(_, _)
FindJsonFence(t, i) ==
    IF i >= Len(t) THEN Len(t) + 1
    ELSE IF t[i] = "FENCE" /\ t[i + 1] = "JSON" THEN i ELSE FindJsonFence(t, i + 1)

\* extract.py 414-417: the text handed to json.loads (before strip)
StripFences(response_text) ==
    IF FindJsonFence(response_text, 1) <= Len(response_text)
    THEN \* response_text.split(FENCE + "json")[1].split(FENCE)[0]
         LET a == FindJsonFence(response_text, 1) + 2
             b == FindFence(response_text, a)
         IN Slice(response_text, a, b - 1)
    ELSE IF FindFence(response_text, 1) <= Len(response_text)
    THEN \* response_text.split(FENCE)[1].split(FENCE)[0]
         LET a == FindFence(response_text, 1) + 1
             b == FindFence(response_text, a)
         IN Slice(response_text, a, b - 1)
    ELSE response_text

(***************************************************************************)
(* extract.py : map_comprehensive_to_jobdoc                                 *)
(***************************************************************************)
MaxRequiredSkills == 15

MaxPreferredSkills == 10

\* x.get(...) on x raises AttributeError: x is neither a dict nor the {} default
NotDict(o) == o.shape \notin {"absent", "object"}

\* ", ".join(location_parts): a non-empty string identified by its parts
Joined(parts) == [t |-> "str", s |-> "joined", n |-> 0, l |-> parts]

SetIf(d, cond, k, v) == IF cond THEN Put(d, k, v) ELSE d

RECURSIVE SkillNames(_, _)
\* [s["skill_name"] for s in technical_skills if bool(s.get("is_required")) = want]
SkillNames(items, want) ==
    IF items = << >> THEN << >>
    ELSE IF Head(items).is_required = want
         THEN << Head(items).skill_name >> \o SkillNames(Tail(items), want)
         ELSE SkillNames(Tail(items), want)

\* map_comprehensive_to_jobdoc raises (AttributeError, KeyError) instead of returning
MapRaises(c) ==
    \/ NotDict(c.metadata)
    \/ c.metadata.location.shape \notin {"absent", "null", "object"}
    \/ NotDict(c.experience_profile)
    \/ NotDict(c.experience_profile.years_required)
    \/ NotDict(c.compensation)
    \/ NotDict(c.compensation.salary)
    \/ NotDict(c.skills_breakdown)
    \/ c.skills_breakdown.technical_skills.shape \notin {"absent", "null", "list"}
    \/ \E i \in 1..Len(c.skills_breakdown.technical_skills.items) :
          LET e == c.skills_breakdown.technical_skills.items[i]
          IN e.shape # "object" \/ ~e.has_name

RemoteType(remote_policy) ==
    IF remote_policy = Str("fully_remote") THEN Str("remote")
    ELSE IF remote_policy \in {Str("hybrid_flexible"), Str("hybrid_fixed")} THEN Str("hybrid")
    ELSE IF remote_policy = Str("onsite") THEN Str("onsite")
    ELSE None

\* mutant: the LLM value is used only where the client has none
MetadataFieldKeepsClient(d, metadata, field) ==
    SetIf(d, Truthy(metadata[field]) /\ ~Truthy(Get(d, field)), field, metadata[field])

\* extract.py 233-238: if metadata.get(field): jobdoc[field] = metadata[field]
MetadataField(d, metadata, field) == SetIf(d, Truthy(metadata[field]), field, metadata[field])

map_comprehensive_to_jobdoc(comprehensive, extension_extracted) ==
    LET metadata == comprehensive.metadata
        location == metadata.location
        d0 == extension_extracted
        d1 == MetadataField(d0, metadata, "job_title")
        d2 == MetadataField(d1, metadata, "company_name")
        d3 == MetadataField(d2, metadata, "industry")
        \* Location
        inLoc == location.shape = "object"
        parts == (IF Truthy(location.city) THEN << location.city.s >> ELSE << >>)
                 \o (IF Truthy(location.state_province) THEN << location.state_province.s >> ELSE << >>)
                 \o (IF Truthy(location.country) THEN << location.country.s >> ELSE << >>)
        d4 == SetIf(d3, inLoc /\ Truthy(location.city), "location_city", location.city)
        d5 == SetIf(d4, inLoc /\ Truthy(location.country), "location_country", location.country)
        d6 == SetIf(d5, inLoc /\ parts # << >>, "location", Joined(parts))
        d7 == SetIf(d6, inLoc /\ Truthy(location.remote_policy) /\ RemoteType(location.remote_policy) # None,
                    "remote_type", RemoteType(location.remote_policy))
        \* Employment type -> role_type
        d8 == SetIf(d7, Truthy(metadata.employment_type), "role_type", metadata.employment_type)
        \* Experience profile
        exp_profile == comprehensive.experience_profile
        years_required == exp_profile.years_required
        d9 == SetIf(d8, years_required.minimum # None, "years_experience_min", years_required.minimum)
        d10 == SetIf(d9, years_required.maximum # None, "years_experience_max", years_required.maximum)
        d11 == SetIf(d10, Truthy(exp_profile.seniority_level), "seniority", exp_profile.seniority_level)
        \* Compensation
        salary == comprehensive.compensation.salary
        d12 == SetIf(d11, salary.min # None, "salary_min", salary.min)
        d13 == SetIf(d12, salary.max # None, "salary_max", salary.max)
        d14 == SetIf(d13, Truthy(salary.currency), "salary_currency", salary.currency)
        d15 == SetIf(d14, Truthy(salary.period), "salary_period", salary.period)
        \* Skills
        technical_skills == comprehensive.skills_breakdown.technical_skills.items
        required == SkillNames(technical_skills, TRUE)
        preferred == SkillNames(technical_skills, FALSE)
        d16 == SetIf(d15, required # << >>, "required_skills", List(Take(required, MaxRequiredSkills)))
        d17 == SetIf(d16, preferred # << >>, "preferred_skills", List(Take(preferred, MaxPreferredSkills)))
    IN d17

(***************************************************************************)
(* extract.py : build_extraction_evidence_from_comprehensive                *)
(***************************************************************************)
\* parsing_confidence.get("overall_confidence", 0.5), in percent
OverallConfidence(c) ==
    IF c.parsing_confidence.overall_confidence.shape = "number"
    THEN c.parsing_confidence.overall_confidence.pct
    ELSE 50

\* build_extraction_evidence_from_comprehensive raises (AttributeError, TypeError)
EvidenceRaises(c) ==
    \/ NotDict(c.parsing_confidence)
    \/ NotDict(c.metadata)
    \/ /\ c.parsing_confidence.overall_confidence.shape \notin {"absent", "number"}
       /\ \E f \in {"job_title", "company_name", "industry"} : Truthy(c.metadata[f])

LlmEvidence(c, field) ==
    [field |-> field, value |-> c.metadata[field], evidence |-> "Extracted from job posting",
     confidence |-> IF OverallConfidence(c) > 70 THEN "high" ELSE "medium",
     source |-> "llm_comprehensive"]

RECURSIVE MetadataEvidence(_, _)
MetadataEvidence(c, fields) ==
    IF fields = << >> THEN << >>
    ELSE (IF Truthy(c.metadata[Head(fields)]) THEN << LlmEvidence(c, Head(fields)) >> ELSE << >>)
         \o MetadataEvidence(c, Tail(fields))

build_extraction_evidence_from_comprehensive(c) ==
    MetadataEvidence(c, << "job_title", "company_name", "industry" >>)
    \o (IF c.requirements > 0
        THEN << [field |-> "requirements_count", value |-> Num(c.requirements),
                 evidence |-> "Extracted N requirements", confidence |-> "high",
                 source |-> "llm_comprehensive"] >>
        ELSE << >>)

(***************************************************************************)
(* Pipeline state (state.py JobIntakeState) and the stage functions         *)
(*                                                                          *)
(* The state is a dict: a function from the keys present to their values.   *)
(* A stage function is an operator from the state (and the behaviour of the *)
(* collaborators it calls) to [raised, called, result]: raised tells that   *)
(* an exception left the function, called that the completion service was   *)
(* invoked, result is the dict the function returns.                        *)
(***************************************************************************)
\* state.get(k, default)
StateGet(st, k, default) == IF k \in DOMAIN st THEN st[k] ELSE default

\* an error string: a fixed message followed by the text of str(e), if any
Err(msg, detail) == [msg |-> msg, detail |-> detail]

Returned(result, called) == [raised |-> FALSE, called |-> called, result |-> result]

Raised(called) == [raised |-> TRUE, called |-> called, result |-> EmptyDict]

\* the completion service: llm.invoke either raises or returns response.content
LlmRaises == [raises |-> TRUE, content |-> << >>]

LlmReturns(text) == [raises |-> FALSE, content |-> text]

\* extension_extracted as the caller passes it: a dict, or a value that is not a dict
Dict(d) == [isdict |-> TRUE, truthy |-> DOMAIN d # {}, d |-> d]

NotADict(truthy) == [isdict |-> FALSE, truthy |-> truthy, d |-> EmptyDict]

(***************************************************************************)
(* ingest.py : ingest_raw_capture                                           *)
(***************************************************************************)
ingest_raw_capture(state, uuid) ==
    LET errors0 == StateGet(state, "errors", << >>)
        errors1 == IF ~Truthy(StateGet(state, "job_url", None))
                   THEN Append(errors0, Err("job_url is required", << >>))
                   ELSE errors0
        ext == StateGet(state, "extension_extracted", Dict(EmptyDict))
        errors2 == IF StateGet(state, "raw_text", << >>) = << >> /\ ~ext.truthy
                   THEN Append(errors1, Err("Either raw_text or extension_extracted is required", << >>))
                   ELSE errors1
    IN Returned([thread_id |-> uuid,
                 ingested_at |-> "now",
                 extension_extracted |-> IF ext.isdict THEN ext ELSE Dict(EmptyDict),
                 current_node |-> "ingest_raw_capture",
                 errors |-> errors2], FALSE)

(***************************************************************************)
(* preprocess.py : preprocess_and_segment                                   *)
(***************************************************************************)
preprocess_and_segment(state) ==
    LET raw_text == StateGet(state, "raw_text", << >>)
        errors == StateGet(state, "errors", << >>)
        cleaned_text == clean_text(raw_text)
        seg == segment_text(cleaned_text)
    IN IF cleaned_text = << >>
       THEN Returned([segmented |-> [k \in {"full_text"} |-> << >>],
                      doc_stats |-> EmptyDict,
                      current_node |-> "preprocess_and_segment",
                      errors |-> Append(errors, Err("No text content after cleaning", << >>))], FALSE)
       ELSE Returned([segmented |-> seg.segments,
                      doc_stats |-> [char_count |-> TextLen(cleaned_text),
                                     word_count |-> WordCount(cleaned_text),
                                     token_count |-> count_tokens(cleaned_text),
                                     section_count |-> seg.section_count,
                                     language |-> detect_language(cleaned_text)],
                      current_node |-> "preprocess_and_segment",
                      errors |-> errors], FALSE)

(***************************************************************************)
(* extract.py : extract_structured_fields                                   *)
(***************************************************************************)
FullTextCap == 8000

\* text[:n] on chunks: the longest prefix of whole chunks with at most n characters
RECURSIVE TakeChars(_, _)
TakeChars(t, n) ==
    IF t = << >> \/ ChunkLen(Head(t)) > n THEN << >>
    ELSE << Head(t) >> \o TakeChars(Tail(t), n - ChunkLen(Head(t)))

Section(segmented, name) == IF name \in DOMAIN segmented THEN segmented[name] ELSE << >>

TextToAnalyze(segmented) ==
    Section(segmented, "requirements") \o << "NL", "NL" >> \o
    Section(segmented, "responsibilities") \o << "NL", "NL" >> \o
    Section(segmented, "about") \o << "NL", "NL" >> \o
    Section(segmented, "benefits") \o << "NL", "NL" >> \o
    Section(segmented, "additional") \o << "NL", "NL" >> \o
    Section(segmented, "qualifications") \o << "NL", "NL" >> \o
    TakeChars(Section(segmented, "full_text"), FullTextCap)

\* the order in which the client's dict is iterated (the order analyze.py builds it in)
ClientKeyOrder == << "job_url", "job_title", "company_name", "salary_min", "salary_max", "salary_raw",
                     "seniority", "remote_type", "role_type", "location", "required_skills", "source",
                     "posting_date" >>

RECURSIVE ClientEvidence(_, _)
\* extract.py 440-448
ClientEvidence(d, keys) ==
    IF keys = << >> THEN << >>
    ELSE (IF Head(keys) \in DOMAIN d /\ d[Head(keys)] # None
          THEN << [field |-> Head(keys), value |-> d[Head(keys)], evidence |-> "Client-side extraction",
                   confidence |-> "medium", source |-> "extension"] >>
          ELSE << >>)
         \o ClientEvidence(d, Tail(keys))

\* extract.py 419-430: json.loads has been applied to text, with the outcome parsed
DecodeResponse(text, parsed, errors) ==
    IF ~parsed.ok
    THEN [analysis |-> EmptyAnalysis,
          errors |-> Append(errors, Err("Failed to parse LLM response as JSON", text))]
    ELSE IF parsed.value.top # "object"
    THEN \* comprehensive_analysis.keys() raises AttributeError inside the try
         [analysis |-> EmptyAnalysis,
          errors |-> Append(errors, Err("LLM extraction failed", << "no attribute keys", parsed.value.top >>))]
    ELSE [analysis |-> parsed.value, errors |-> errors]

\* extract.py 414-419: the text that json.loads is given
ResponseText(llm) == StripText(StripFences(llm.content))

\* mutant: a response that is not JSON is dropped without recording an error
ParseCompletionSilent(llm, errors) ==
    IF llm.raises
    THEN [analysis |-> EmptyAnalysis,
          errors |-> Append(errors, Err("LLM extraction failed", << "completion service error" >>))]
    ELSE [analysis |-> DecodeResponse(ResponseText(llm), json_loads(ResponseText(llm)), errors).analysis,
          errors |-> errors]

\* extract.py 402-430: the try block; [analysis, errors] after it
ParseCompletion(llm, errors) ==
    IF llm.raises
    THEN [analysis |-> EmptyAnalysis,
          errors |-> Append(errors, Err("LLM extraction failed", << "completion service error" >>))]
    ELSE DecodeResponse(ResponseText(llm), json_loads(ResponseText(llm)), errors)

\* extract.py 432-457: mapping, evidence and the returned dict, after the try block left p
MergeAndReturn(extension_extracted, p) ==
    IF MapRaises(p.analysis) \/ EvidenceRaises(p.analysis)
    THEN Raised(TRUE)
    ELSE Returned([comprehensive_analysis |-> p.analysis,
                   llm_extracted |-> p.analysis,
                   extraction_evidence |->
                       build_extraction_evidence_from_comprehensive(p.analysis)
                       \o ClientEvidence(extension_extracted.d, ClientKeyOrder),
                   jobdoc |-> map_comprehensive_to_jobdoc(p.analysis, extension_extracted.d),
                   current_node |-> "extract_structured_fields",
                   errors |-> p.errors], TRUE)

extract_structured_fields(state, llm) ==
    LET errors == StateGet(state, "errors", << >>)
        segmented == StateGet(state, "segmented", EmptyDict)
        extension_extracted == StateGet(state, "extension_extracted", Dict(EmptyDict))
    IN IF Strip(TextToAnalyze(segmented)) = << >>
       THEN Returned([comprehensive_analysis |-> EmptyAnalysis,
                      llm_extracted |-> EmptyAnalysis,
                      extraction_evidence |-> << >>,
                      jobdoc |-> extension_extracted.d,
                      current_node |-> "extract_structured_fields",
                      errors |-> Append(errors, Err("No text available for LLM extraction", << >>))], FALSE)
       ELSE MergeAndReturn(extension_extracted, ParseCompletion(llm, errors))

(***************************************************************************)
(* summarize.py : generate_job_summary                                      *)
(*                                                                          *)
(* A summary is a sequence of lines; a line is one of the kinds below.      *)
(***************************************************************************)
SummaryLines == {"HEADING", "BOLD", "TEXT", "BLANK", "SUCCESS_HEADING", "SUCCESS_BOLD"}

\* "success looks like" in line.lower()
HasSuccessPhrase(line) == line \in {"SUCCESS_HEADING", "SUCCESS_BOLD"}

\* line.startswith("#") or line.startswith("**")
StartsBlock(line) == line \in {"HEADING", "BOLD", "SUCCESS_HEADING", "SUCCESS_BOLD"}

\* summarize.py 108-115: the loop over the lines
RECURSIVE SuccessLoop(_, _, _)
SuccessLoop(lines, capture, success_lines) ==
    IF lines = << >> THEN success_lines
    ELSE IF HasSuccessPhrase(Head(lines)) THEN SuccessLoop(Tail(lines), TRUE, success_lines)
    ELSE IF capture /\ StartsBlock(Head(lines)) THEN success_lines
    ELSE IF capture THEN SuccessLoop(Tail(lines), capture, Append(success_lines, Head(lines)))
    ELSE SuccessLoop(Tail(lines), capture, success_lines)

RECURSIVE StripBlankLines(_)
\* "\n".join(success_lines).strip()
StripBlankLines(ls) ==
    IF ls # << >> /\ Head(ls) = "BLANK" THEN StripBlankLines(Tail(ls))
    ELSE IF ls # << >> /\ ls[Len(ls)] = "BLANK" THEN StripBlankLines(SubSeq(ls, 1, Len(ls) - 1))
    ELSE ls

SuccessCriteria(job_summary) == StripBlankLines(SuccessLoop(job_summary, FALSE, << >>))

\* jobdoc.get('required_skills', []) is not a sequence: slicing or joining it raises TypeError
SkillsNotSequence(jobdoc) ==
    "required_skills" \in DOMAIN jobdoc /\ jobdoc["required_skills"].t \notin {"list", "str"}

generate_job_summary(state, llm) ==
    LET errors == StateGet(state, "errors", << >>)
        segmented == StateGet(state, "segmented", EmptyDict)
        jobdoc == StateGet(state, "jobdoc", EmptyDict)
        full_text == Section(segmented, "full_text")
    IN IF SkillsNotSequence(jobdoc)
       THEN Raised(FALSE)
       ELSE IF full_text = << >>
       THEN Returned([job_summary |-> << >>,
                      success_criteria |-> << >>,
                      current_node |-> "generate_job_summary",
                      errors |-> Append(errors, Err("No text available for summarization", << >>))], FALSE)
       ELSE IF llm.raises
       THEN Returned([job_summary |-> << >>,
                      success_criteria |-> << >>,
                      current_node |-> "generate_job_summary",
                      errors |-> Append(errors, Err("Summary generation failed", << "completion service error" >>))], TRUE)
       ELSE Returned([job_summary |-> llm.content,
                      success_criteria |-> SuccessCriteria(llm.content),
                      current_node |-> "generate_job_summary",
                      errors |-> errors], TRUE)

(***************************************************************************)
(* persist.py : persist_job_artifacts                                       *)
(*                                                                          *)
(* jobs is the Job table: job id -> row (field -> value).  env tells which  *)
(* collaborator call raises in this step: env.db in {"none", "query",       *)
(* "flush"}, env.chroma in {"none", "config", "upsert", "update"}.          *)
(***************************************************************************)
\* persist.py 60-111: the fields copied with "if jobdoc.get(f): job.f = jobdoc[f]"
PersistFields == {"job_title", "company_name", "location", "salary_min", "salary_max",
                  "salary_currency", "salary_period", "seniority", "years_experience_min",
                  "years_experience_max", "required_skills", "preferred_skills", "remote_type",
                  "role_type", "industry"}

\* date.fromisoformat accepts the string
ValidIsoDates == {"2024-05-01"}

\* persist.py 78-87
WritesPostingDate(jobdoc) ==
    /\ Truthy(Get(jobdoc, "posting_date"))
    /\ Get(jobdoc, "posting_date").s \in ValidIsoDates

\* the row after the assignments of persist.py 60-116
UpdatedRow(row, jobdoc, job_summary) ==
    LET copied == {f \in PersistFields : Truthy(Get(jobdoc, f))}
        dated == IF WritesPostingDate(jobdoc) THEN {"posting_date"} ELSE {}
        summarized == IF job_summary # << >> THEN {"summary", "summary_generated_at"} ELSE {}
    IN [f \in (DOMAIN row) \cup copied \cup dated \cup summarized |->
            IF f \in copied \cup dated THEN jobdoc[f]
            ELSE IF f = "summary" /\ f \in summarized THEN job_summary
            ELSE IF f = "summary_generated_at" /\ f \in summarized THEN "now"
            ELSE row[f]]

EmbeddingId(job_id) == [t |-> "str", s |-> "job_", n |-> 0, l |-> << job_id.s >>]

\* persist.py 47-124: "1. Update Job in PostgreSQL"; [persisted, errors, jobs] after it
UpdateJob(state, has_db, jobs, env) ==
    LET errors0 == StateGet(state, "errors", << >>)
        job_id == StateGet(state, "job_id", None)
        jobdoc == StateGet(state, "jobdoc", EmptyDict)
        job_summary == StateGet(state, "job_summary", << >>)
        block1 == has_db /\ Truthy(job_id)
        found == job_id.s \in DOMAIN jobs
        wrote == block1 /\ env.db = "none" /\ found
    IN [persisted |-> wrote,
        errors |-> IF block1 /\ env.db # "none"
                   THEN Append(errors0, Err("Database update failed", << env.db >>))
                   ELSE IF block1 /\ ~found
                   THEN Append(errors0, Err("Job not found in database", << job_id.s >>))
                   ELSE errors0,
        jobs |-> IF wrote
                 THEN [jobs EXCEPT ![job_id.s] = UpdatedRow(jobs[job_id.s], jobdoc, job_summary)]
                 ELSE jobs]

\* mutant: the embedding is created only after a successful update of the Job row
CreateEmbeddingAfterWrite(state, has_db, env, b1) ==
    LET job_id == StateGet(state, "job_id", None)
        jobdoc == StateGet(state, "jobdoc", EmptyDict)
        job_summary == StateGet(state, "job_summary", << >>)
        block2 == job_summary # << >> /\ Truthy(job_id) /\ b1.persisted
        early == block2 /\ (env.chroma = "config" \/ SkillsNotSequence(jobdoc))
        assigned == block2 /\ ~early
        failed2 == block2 /\ (early \/ env.chroma # "none")
        linked == assigned /\ env.chroma = "none" /\ has_db /\ job_id.s \in DOMAIN b1.jobs
    IN [embedding_id |-> IF assigned THEN EmbeddingId(job_id) ELSE None,
        errors |-> IF failed2
                   THEN Append(b1.errors, Err("ChromaDB embedding failed", << env.chroma >>))
                   ELSE b1.errors,
        jobs |-> IF linked
                 THEN [b1.jobs EXCEPT ![job_id.s] = Put(b1.jobs[job_id.s], "embedding_id", EmbeddingId(job_id))]
                 ELSE b1.jobs]

\* persist.py 126-168: "2. Create Embeddings in ChromaDB", entered with the outcome b1
\* of the first block; [embedding_id, errors, jobs] after it
CreateEmbedding(state, has_db, env, b1) ==
    LET job_id == StateGet(state, "job_id", None)
        jobdoc == StateGet(state, "jobdoc", EmptyDict)
        job_summary == StateGet(state, "job_summary", << >>)
        block1 == has_db /\ Truthy(job_id)
        block2 == job_summary # << >> /\ Truthy(job_id)
        early == block2 /\ (env.chroma = "config" \/ SkillsNotSequence(jobdoc))
        assigned == block2 /\ ~early
        failed2 == block2 /\ (early \/ env.chroma # "none")
        linked == assigned /\ env.chroma = "none" /\ block1 /\ job_id.s \in DOMAIN b1.jobs
    IN [embedding_id |-> IF assigned THEN EmbeddingId(job_id) ELSE None,
        errors |-> IF failed2
                   THEN Append(b1.errors, Err("ChromaDB embedding failed",
                                              << IF SkillsNotSequence(jobdoc) /\ env.chroma # "config"
                                                 THEN "TypeError" ELSE env.chroma >>))
                   ELSE b1.errors,
        jobs |-> IF linked
                 THEN [b1.jobs EXCEPT ![job_id.s] = Put(b1.jobs[job_id.s], "embedding_id", EmbeddingId(job_id))]
                 ELSE b1.jobs]

\* mutant: a run counts as persisted only when the embedding was created too
PersistResultNeedsEmbedding(persisted, embedding_id, errors) ==
    [persisted |-> persisted /\ embedding_id # None,
     embedding_id |-> embedding_id,
     current_node |-> "persist_job_artifacts",
     errors |-> errors]

\* persist.py 170-175: the dict persist returns
PersistResult(persisted, embedding_id, errors) ==
    [persisted |-> persisted,
     embedding_id |-> embedding_id,
     current_node |-> "persist_job_artifacts",
     errors |-> errors]

\* [result, jobs]: the dict persist returns and the Job table afterwards
persist_job_artifacts(state, has_db, jobs, env) ==
    LET b1 == UpdateJob(state, has_db, jobs, env)
        b2 == CreateEmbedding(state, has_db, env, b1)
    IN [result |-> PersistResult(b1.persisted, b2.embedding_id, b2.errors),
        jobs |-> b2.jobs]

\* mutant: the stub reports only its own error
persist_stub_forgets(state) ==
    [persisted |-> FALSE,
     current_node |-> "persist",
     errors |-> << Err("No database connection", << >>) >>]

\* job_intake_graph.py 138-142: the persist node of a graph built without a db session
persist_stub(state) ==
    [persisted |-> FALSE,
     current_node |-> "persist",
     errors |-> Append(StateGet(state, "errors", << >>), Err("No database connection", << >>))]

(***************************************************************************)
(* Inputs of the model                                                      *)
(***************************************************************************)
RawTexts ==
    { << >>,                                                            \* ""
      << "SP", "NL", "SHOW", "SP", "MORE", "NBSP" >>,                   \* cleans to ""
      << "SPACES100" >>,                                                \* 100 spaces
      << "W99" >>,                                                      \* 99 characters
      << "W99", "W1" >>,                                                \* 100 characters
      << "W98", "SP", "SHOW", "SP", "MORE" >>,                          \* 108 characters, 98 when cleaned
      << "REQ", "SP", "W51", "NL", "NL", "NL", "RESP", "SP", "W60" >>,  \* two sections
      << "W99", "SP", "W99" >>,                                         \* 199 characters, no section
      << "W99", "SP", "SHOW", "SP", "MORE", "SP", "W1" >>,              \* removal leaves two spaces
      << "W99", "SP", "SHOW", "SHOW", "SP", "MORE", "SP", "MORE" >>,    \* removal joins a new phrase
      << "REQ", "SP", "W51", "NL", "QUAL", "SP", "W60" >> }             \* one section name matched twice

JobUrls == { Str("https://jobs.example/1"), Str("") }

\* the dict analyze.py 143-156 builds from a Job row: every key present, None where the column is null
FromJobRow(title, company, skills) ==
    [job_url |-> Str("https://jobs.example/1"), job_title |-> title, company_name |-> company,
     salary_min |-> None, salary_max |-> None, salary_raw |-> None, seniority |-> None,
     remote_type |-> None, role_type |-> None, location |-> None, required_skills |-> skills,
     source |-> Str("linkedin")]

ClientDicts ==
    { EmptyDict,
      [job_title |-> Str("Backend Engineer")],
      [job_title |-> Str(""), required_skills |-> List(<< >>)],
      FromJobRow(Str("Backend Engineer"), Str("Initech"), None),
      FromJobRow(None, None, List(<< "sql" >>)) }

Payloads == { << k >> : k \in DOMAIN JsonTexts } \cup { FenceInStringText, << "PROSE" >>, << >> }

FenceStyles == {"none", "json", "bare"}

\* the payload as the completion service may wrap it
Wrap(payload, style) ==
    IF style = "json" THEN << "FENCE", "JSON", "NLT" >> \o payload \o << "NLT", "FENCE" >>
    ELSE IF style = "bare" THEN << "FENCE", "NLT" >> \o payload \o << "NLT", "FENCE" >>
    ELSE payload

ExtractCompletions ==
    { LlmRaises } \cup { LlmReturns(Wrap(p, st)) : p \in Payloads, st \in FenceStyles }

SummaryCompletions ==
    { LlmRaises,
      LlmReturns(<< >>),
      LlmReturns(<< "HEADING", "TEXT", "SUCCESS_HEADING", "BLANK", "TEXT", "HEADING", "TEXT" >>),
      LlmReturns(<< "BOLD", "TEXT" >>) }

\* no completion call in this stage
NoLlm == [raises |-> FALSE, content |-> << "no call" >>]

PersistEnvs == [db : {"none", "query", "flush"}, chroma : {"none", "config", "upsert", "update"}]

JobRow0 == [job_url |-> Str("https://jobs.example/1"), job_title |-> Str("Old title"),
            company_name |-> None, salary_min |-> Num(50000), required_skills |-> None]

(***************************************************************************)
(* Drivers                                                                  *)
(***************************************************************************)
VARIABLES driver,        \* which caller sequences the stages
          pc,            \* the stage to run next, or where the run ended
          state,         \* the JobIntakeState dict
          jobs,          \* the Job table
          llm_calls,     \* completion-service invocations in this run
          trace,         \* stages run so far: [stage, raised]
          last_llm,      \* what the completion service did in the last stage run
          events,        \* SSE events yielded by the streaming endpoint
          http,          \* the response of the endpoint: [status, body]
          checkpointer,  \* the module global _checkpointer
          saver,         \* the checkpointer the graph of this run was compiled with
          checkpoints,   \* the checkpoint log: [thread_id, run, stage, step]
          run,           \* how many runs this process has started for the job
          rival,         \* a second background run for the same job: [pc, state, after_first]
          entries,       \* POST /entries: [saved_jobs, saved_count, requests]
          callers        \* threads inside get_checkpointer: [global, connections, savers, threads]

vars == << driver, pc, state, jobs, llm_calls, trace, last_llm, events, http,
           checkpointer, saver, checkpoints, run, rival, entries, callers >>

GraphDrivers == {"graph_db", "graph_stub"}

Drivers == GraphDrivers \cup {"stream", "sync"}

NoResponse == [status |-> 0, body |-> EmptyDict]

InitialState(job_id, job_url, raw_text, ext) ==
    [job_id |-> job_id, job_url |-> job_url, raw_text |-> raw_text,
     extension_extracted |-> ext, errors |-> << >>]

\* what the first call of get_checkpointer in a process may meet
CheckpointerEnvs == {"no_url", "connect_fails", "setup_fails", "ok"}

\* [returned, global]: what get_checkpointer returns and _checkpointer afterwards.
\* "none" is None, "ready" a PostgresSaver after setup(), "not_set_up" a PostgresSaver
\* whose setup() raised: it is assigned to the global before setup() is called.
get_checkpointer(global, env) ==
    IF global # "none" THEN [returned |-> global, global |-> global]
    ELSE IF env \in {"no_url", "connect_fails"} THEN [returned |-> "none", global |-> "none"]
    ELSE IF env = "setup_fails" THEN [returned |-> "none", global |-> "not_set_up"]
    ELSE [returned |-> "ready", global |-> "ready"]

\* str(uuid.uuid4()) of the first and of the second run
RunIds == << Str("uuid-1"), Str("uuid-2") >>

\* the checkpoints of one thread, in the order they were written
RECURSIVE Thread(_, _)
Thread(log, thread_id) ==
    IF log = << >> THEN << >>
    ELSE (IF Head(log).thread_id = thread_id THEN << Head(log) >> ELSE << >>)
         \o Thread(Tail(log), thread_id)

\* "State is persisted after each node": the checkpoint written when stage has returned,
\* values being the state after the node
WriteCheckpoint(log, cp, thread_id, run_id, stage, values) ==
    IF cp = "none" THEN log
    ELSE Append(log, [thread_id |-> thread_id, run |-> run_id, stage |-> stage,
                      step |-> Len(Thread(log, thread_id)) + 1,
                      channel_values |-> values])

\* the lists get_job_intake_history may return when get_checkpointer returns cp: with a
\* checkpointer that was never set up, list() may raise (the result is then []) or not
get_job_intake_history(job_id, cp, log) ==
    IF cp = "none" THEN { << >> }
    ELSE IF cp = "ready" THEN { Thread(log, job_id) }
    ELSE { << >>, Thread(log, job_id) }

\* no second run has been triggered
NoRival == [pc |-> "idle", state |-> << >>, after_first |-> FALSE]

\* no save request is being served
NoEntries == [saved_jobs |-> << >>, saved_count |-> << >>, requests |-> << >>]

\* no thread is inside get_checkpointer
NoCallers == [global |-> 0, connections |-> 0, savers |-> 0, threads |-> << >>]

Init ==
    /\ driver \in Drivers
    /\ pc = IF driver \in GraphDrivers THEN "ingest" ELSE "validate"
    /\ \E job_url \in JobUrls, raw_text \in RawTexts :
         \/ /\ driver \in GraphDrivers
            /\ \E ext \in { Dict(d) : d \in ClientDicts } \cup { NotADict(TRUE), NotADict(FALSE) } :
                 state = InitialState(Str("job-1"), job_url, raw_text, ext)
         \/ /\ driver \notin GraphDrivers
            /\ \E d \in ClientDicts : state = InitialState(Str(""), job_url, raw_text, Dict(d))
    /\ jobs \in IF driver = "graph_db"
                THEN { EmptyDict, [j \in {"job-1"} |-> JobRow0] }
                ELSE { [j \in {"job-1"} |-> JobRow0] }
    /\ llm_calls = 0
    /\ trace = << >>
    /\ last_llm = NoLlm
    /\ events = << >>
    /\ http = NoResponse
    /\ \E env \in CheckpointerEnvs :
         /\ checkpointer = IF driver \in GraphDrivers THEN get_checkpointer("none", env).global ELSE "none"
         /\ saver = IF driver \in GraphDrivers THEN get_checkpointer("none", env).returned ELSE "none"
    /\ checkpoints = << >>
    /\ run = 1
    /\ rival = NoRival
    /\ entries = NoEntries
    /\ callers = NoCallers

Stages == << "ingest", "preprocess", "extract", "summarize" >>

StageNames == {"ingest", "preprocess", "extract", "summarize"}

\* the completions a stage may meet
Completions(stage) ==
    IF stage = "extract" THEN ExtractCompletions
    ELSE IF stage = "summarize" THEN SummaryCompletions
    ELSE { NoLlm }

\* node_func(state)
RunNode(stage, st, llm) ==
    IF stage = "ingest" THEN ingest_raw_capture(st, RunIds[run])
    ELSE IF stage = "preprocess" THEN preprocess_and_segment(st)
    ELSE IF stage = "extract" THEN extract_structured_fields(st, llm)
    ELSE generate_job_summary(st, llm)

(***************************************************************************)
(* job_intake_graph.py : the conditional edges and the compiled graph       *)
(***************************************************************************)
\* rawText below this length is rejected by the endpoints; char_count below it ends the graph
MinChars == 100

should_continue_after_ingest(st) ==
    IF StateGet(st, "errors", << >>) # << >> THEN "end" ELSE "preprocess"

\* mutant: a missing char_count counts as enough text
CharCountDefaultsHigh(st) ==
    LET doc_stats == StateGet(st, "doc_stats", EmptyDict)
    IN IF "char_count" \in DOMAIN doc_stats THEN doc_stats["char_count"] ELSE MinChars

\* doc_stats.get("char_count", 0)
CharCount(st) ==
    LET doc_stats == StateGet(st, "doc_stats", EmptyDict)
    IN IF "char_count" \in DOMAIN doc_stats THEN doc_stats["char_count"] ELSE 0

\* mutant: a text of exactly MinChars characters is still too short
should_continue_after_preprocess_inclusive(st) ==
    IF CharCount(st) <= MinChars THEN "end" ELSE "extract"

should_continue_after_preprocess(st) ==
    IF CharCount(st) < MinChars THEN "end" ELSE "extract"

\* mutant: the required skills are not looked at
should_run_summary_title_only(st) ==
    LET jobdoc == StateGet(st, "jobdoc", EmptyDict)
    IN IF Truthy(Get(jobdoc, "job_title")) THEN "summarize" ELSE "persist"

should_run_summary(st) ==
    LET jobdoc == StateGet(st, "jobdoc", EmptyDict)
    IN IF Truthy(Get(jobdoc, "job_title")) \/ Truthy(Get(jobdoc, "required_skills"))
       THEN "summarize" ELSE "persist"

\* the edges added in create_job_intake_graph
GraphEdge(stage, st) ==
    IF stage = "ingest" THEN should_continue_after_ingest(st)
    ELSE IF stage = "preprocess" THEN should_continue_after_preprocess(st)
    ELSE IF stage = "extract" THEN should_run_summary(st)
    ELSE "persist"

\* one node of the compiled graph runs; an exception leaves graph.invoke
GraphNode(stage) ==
    /\ driver \in GraphDrivers
    /\ pc = stage
    /\ \E llm \in Completions(stage) :
         \E out \in { RunNode(stage, state, llm) } :
         /\ trace' = Append(trace, [stage |-> stage, raised |-> out.raised])
         /\ llm_calls' = llm_calls + (IF out.called THEN 1 ELSE 0)
         /\ last_llm' = IF out.called THEN llm ELSE NoLlm
         /\ IF out.raised
            THEN /\ pc' = "raised"
                 /\ state' = state
                 /\ checkpoints' = checkpoints
            ELSE /\ state' = Update(state, out.result)
                 /\ pc' = GraphEdge(stage, state')
                 /\ checkpoints' = WriteCheckpoint(checkpoints, saver, state["job_id"], RunIds[run], stage, state')
    /\ UNCHANGED << driver, jobs, events, http, checkpointer, saver, run, rival, entries, callers >>

GraphIngest == GraphNode("ingest")

GraphPreprocess == GraphNode("preprocess")

GraphExtract == GraphNode("extract")

GraphSummarize == GraphNode("summarize")

\* the persist node: persist_job_artifacts_with_db(db), or the stub when there is no db
GraphPersist ==
    /\ driver \in GraphDrivers
    /\ pc = "persist"
    /\ \E env \in PersistEnvs :
         \E p \in { persist_job_artifacts(state, TRUE, jobs, env) } :
         IF driver = "graph_db"
         THEN /\ state' = Update(state, p.result)
              /\ jobs' = p.jobs
         ELSE /\ state' = Update(state, persist_stub(state))
              /\ jobs' = jobs
    /\ trace' = Append(trace, [stage |-> "persist", raised |-> FALSE])
    /\ last_llm' = NoLlm
    /\ pc' = "end"
    /\ checkpoints' = WriteCheckpoint(checkpoints, saver, state["job_id"], RunIds[run], "persist", state')
    /\ UNCHANGED << driver, llm_calls, events, http, checkpointer, saver, run, rival, entries, callers >>

(***************************************************************************)
(* routers/extract.py : the streaming and the synchronous endpoint          *)
(***************************************************************************)
\* if not request.raw_text or len(request.raw_text) < 100: raise HTTPException(400)
RejectsRequest(st) == st["raw_text"] = << >> \/ TextLen(st["raw_text"]) < MinChars

\* mutant: the list "nodes" ends after extract
NextStageWithoutSummary(stage) ==
    IF stage = "ingest" THEN "preprocess"
    ELSE IF stage = "preprocess" THEN "extract"
    ELSE "finish"

\* the stage after stage in the list "nodes", "finish" after the last
NextStage(stage) ==
    IF stage = "ingest" THEN "preprocess"
    ELSE IF stage = "preprocess" THEN "extract"
    ELSE IF stage = "extract" THEN "summarize"
    ELSE "finish"

Event(node, status) == [node |-> node, status |-> status]

\* extract_stream: validation, then the StreamingResponse is returned
StreamRequest ==
    /\ driver = "stream"
    /\ pc = "validate"
    /\ IF RejectsRequest(state)
       THEN /\ http' = [status |-> 400, body |-> EmptyDict]
            /\ pc' = "closed"
       ELSE /\ http' = [status |-> 200, body |-> EmptyDict]
            /\ pc' = "ingest"
    /\ UNCHANGED << driver, state, jobs, llm_calls, trace, last_llm, events, checkpointer, saver, checkpoints, run, rival, entries, callers >>

\* run_extraction_stream: one iteration of "for node_name, node_func, progress in nodes"
StreamNode(stage) ==
    /\ driver = "stream"
    /\ pc = stage
    /\ \E llm \in Completions(stage) :
         \E out \in { RunNode(stage, state, llm) } :
         /\ trace' = Append(trace, [stage |-> stage, raised |-> out.raised])
         /\ llm_calls' = llm_calls + (IF out.called THEN 1 ELSE 0)
         /\ last_llm' = IF out.called THEN llm ELSE NoLlm
         /\ IF ~out.raised
            THEN /\ state' = Update(state, out.result)
                 /\ events' = events \o << Event(stage, "started"), Event(stage, "complete") >>
                 /\ pc' = NextStage(stage)
            ELSE /\ state' = state
                 /\ IF stage \in {"ingest", "preprocess"}
                    THEN /\ events' = events \o << Event(stage, "started"), Event(stage, "error"),
                                                   Event("", "failed") >>
                         /\ pc' = "closed"
                    ELSE /\ events' = events \o << Event(stage, "started"), Event(stage, "error") >>
                         /\ pc' = NextStage(stage)
    /\ UNCHANGED << driver, jobs, http, checkpointer, saver, checkpoints, run, rival, entries, callers >>

\* run_extraction_stream: the final success event
StreamDone ==
    /\ driver = "stream"
    /\ pc = "finish"
    /\ events' = Append(events, Event("", "done"))
    /\ pc' = "closed"
    /\ UNCHANGED << driver, state, jobs, llm_calls, trace, last_llm, http, checkpointer, saver, checkpoints, run, rival, entries, callers >>

\* extract_sync: validation
SyncRequest ==
    /\ driver = "sync"
    /\ pc = "validate"
    /\ IF RejectsRequest(state)
       THEN /\ http' = [status |-> 400, body |-> EmptyDict]
            /\ pc' = "closed"
       ELSE /\ http' = http
            /\ pc' = "ingest"
    /\ UNCHANGED << driver, state, jobs, llm_calls, trace, last_llm, events, checkpointer, saver, checkpoints, run, rival, entries, callers >>

\* extract_sync 252-255: state.update(node(state)); an exception becomes a 500
SyncNode(stage) ==
    /\ driver = "sync"
    /\ pc = stage
    /\ \E llm \in Completions(stage) :
         \E out \in { RunNode(stage, state, llm) } :
         /\ trace' = Append(trace, [stage |-> stage, raised |-> out.raised])
         /\ llm_calls' = llm_calls + (IF out.called THEN 1 ELSE 0)
         /\ last_llm' = IF out.called THEN llm ELSE NoLlm
         /\ IF ~out.raised
            THEN /\ state' = Update(state, out.result)
                 /\ http' = http
                 /\ pc' = NextStage(stage)
            ELSE /\ state' = state
                 /\ http' = [status |-> 500, body |-> EmptyDict]
                 /\ pc' = "closed"
    /\ UNCHANGED << driver, jobs, events, checkpointer, saver, checkpoints, run, rival, entries, callers >>

RECURSIVE ConfidenceMap(_, _)
\* the loop "for ev in evidence: confidence_map[field] = {...}"
ConfidenceMap(evidence, acc) ==
    IF evidence = << >> THEN acc
    ELSE ConfidenceMap(Tail(evidence),
                       Put(acc, Head(evidence).field,
                           [confidence |-> Head(evidence).confidence, source |-> Head(evidence).source]))

\* extract_sync 257-274: the 200 response
SyncRespond ==
    /\ driver = "sync"
    /\ pc = "finish"
    /\ http' = [status |-> 200,
                body |-> [status |-> "success",
                          fields |-> StateGet(state, "jobdoc", EmptyDict),
                          confidence |-> ConfidenceMap(StateGet(state, "extraction_evidence", << >>), EmptyDict),
                          summary |-> StateGet(state, "job_summary", << >>),
                          errors |-> StateGet(state, "errors", << >>)]]
    /\ pc' = "closed"
    /\ UNCHANGED << driver, state, jobs, llm_calls, trace, last_llm, events, checkpointer, saver, checkpoints, run, rival, entries, callers >>

Next ==
    \/ GraphIngest
    \/ GraphPreprocess
    \/ GraphExtract
    \/ GraphSummarize
    \/ GraphPersist
    \/ StreamRequest
    \/ \E stage \in StageNames : StreamNode(stage)
    \/ StreamDone
    \/ SyncRequest
    \/ \E stage \in StageNames : SyncNode(stage)
    \/ SyncRespond

Spec == Init /\ [][Next]_vars

(***************************************************************************)
(* Several runs for one job in one process                                  *)
(***************************************************************************)
\* analyze.py 143-156: extension_extracted as analyze_job builds it from the Job row
ExtensionFromJob(row) ==
    [k \in {"job_url", "job_title", "company_name", "salary_min", "salary_max", "salary_raw",
             "seniority", "remote_type", "role_type", "location", "required_skills", "source"} |->
        Get(row, k)]

\* analyze_job is called again for a job that has no summary yet: run_analysis_background
\* calls run_job_intake_sync, which builds a new graph and the initial state
Rerun ==
    /\ driver = "graph_db"
    /\ pc \in {"end", "raised"}
    /\ run < Len(RunIds)
    /\ state["job_id"].s \in DOMAIN jobs
    /\ "summary" \notin DOMAIN jobs[state["job_id"].s]
    /\ \E env \in CheckpointerEnvs :
         /\ checkpointer' = get_checkpointer(checkpointer, env).global
         /\ saver' = get_checkpointer(checkpointer, env).returned
    /\ state' = InitialState(state["job_id"], Get(jobs[state["job_id"].s], "job_url"), state["raw_text"],
                             Dict(ExtensionFromJob(jobs[state["job_id"].s])))
    /\ run' = run + 1
    /\ pc' = "ingest"
    /\ trace' = << >>
    /\ llm_calls' = 0
    /\ last_llm' = NoLlm
    /\ UNCHANGED << driver, jobs, events, http, checkpoints, rival, entries, callers >>

\* a checkpointer whose setup() raised is asked to write: the write may raise, and the
\* exception leaves graph.invoke
CheckpointWriteFails ==
    /\ driver \in GraphDrivers
    /\ saver = "not_set_up"
    /\ pc \in StageNames \cup {"persist"}
    /\ pc' = "raised"
    /\ UNCHANGED << driver, state, jobs, llm_calls, trace, last_llm, events, http,
                    checkpointer, saver, checkpoints, run, rival, entries, callers >>

NextRuns ==
    \/ Next
    \/ Rerun
    \/ CheckpointWriteFails

SpecRuns == Init /\ [][NextRuns]_vars

(***************************************************************************)
(* Properties                                                               *)
(***************************************************************************)
Errors == StateGet(state, "errors", << >>)

JobDoc == StateGet(state, "jobdoc", EmptyDict)

ClientFields == StateGet(state, "extension_extracted", Dict(EmptyDict)).d

Analysis == StateGet(state, "comprehensive_analysis", EmptyAnalysis)

StageSeq == [i \in 1..Len(trace) |-> trace[i].stage]

Ran(stage) == \E i \in 1..Len(trace) : trace[i].stage = stage

\* the last stage run is stage and it returned normally
JustReturned(stage) ==
    trace # << >> /\ trace[Len(trace)].stage = stage /\ ~trace[Len(trace)].raised

HasTitleOrSkills(jobdoc) ==
    Truthy(Get(jobdoc, "job_title")) \/ Truthy(Get(jobdoc, "required_skills"))

\* the fields of the response that carry a confidence level in the evidence
ConfidenceFields == {"job_title", "company_name", "industry"}

ConfidenceOf(c) == IF OverallConfidence(c) > 70 THEN "high" ELSE "medium"

GraphStageSequences ==
    { << "ingest" >>,
      << "ingest", "preprocess" >>,
      << "ingest", "preprocess", "extract", "persist" >>,
      << "ingest", "preprocess", "extract", "summarize", "persist" >> }

\* C2 (as stated): when a graph run is over, the stages it executed are one of the four
\* sequences; the run stops after ingest exactly when ingest left errors non-empty; and
\* persist, when it runs, is the last stage.
C2_GraphStageSequences ==
    driver \in GraphDrivers =>
        /\ pc \in {"end", "raised"} => StageSeq \in GraphStageSequences
        /\ Len(trace) = 1 => (pc = "end" <=> Errors # << >>)
        /\ \A i \in 1..Len(trace) : trace[i].stage = "persist" => i = Len(trace)

\* the character count of the cleaned text in the state, as preprocess stores it
StoredCharCount ==
    IF "char_count" \in DOMAIN StateGet(state, "doc_stats", EmptyDict)
    THEN state["doc_stats"]["char_count"] ELSE 0

\* C3: in a graph run, once preprocess has completed, the run has ended without extract
\* if and only if doc_stats.char_count (0 when missing) is below 100; with exactly 100
\* characters the run goes on to extract.
C3_ShortTextEndsRun ==
    (driver \in GraphDrivers /\ Len(trace) >= 2) =>
        /\ StoredCharCount < 100 <=> (pc = "end" /\ ~Ran("extract"))
        /\ StoredCharCount >= 100 => trace[2].raised = FALSE /\ (Len(trace) = 2 => pc = "extract")

\* a cleaned text of 99 characters has ended the run after preprocess
C3_Witness ==
    /\ driver \in GraphDrivers
    /\ JustReturned("preprocess")
    /\ StoredCharCount = 99
    /\ pc = "end"

\* a cleaned text of exactly 100 characters has been routed to extract
C3_WitnessBoundary ==
    /\ driver \in GraphDrivers
    /\ JustReturned("preprocess")
    /\ StoredCharCount = 100
    /\ pc = "extract"

\* C4: in a graph run, once extract has completed, summarize is the next stage if and
\* only if the merged document has a non-empty title or a non-empty required-skills
\* list; otherwise the run goes extract -> persist and the completion service has been
\* invoked exactly once by the end of the run.
C4_SummarizeOnlyWithTitleOrSkills ==
    (driver \in GraphDrivers /\ Len(trace) >= 3 /\ ~trace[3].raised) =>
        /\ Len(trace) = 3 => pc = IF HasTitleOrSkills(JobDoc) THEN "summarize" ELSE "persist"
        /\ Len(trace) >= 4 => (trace[4].stage = "summarize" <=> HasTitleOrSkills(JobDoc))
        /\ (~HasTitleOrSkills(JobDoc) /\ pc = "end") =>
              /\ StageSeq = << "ingest", "preprocess", "extract", "persist" >>
              /\ llm_calls = 1

\* a run without title and skills has gone from extract to persist with one completion call
C4_Witness ==
    /\ driver \in GraphDrivers
    /\ pc = "end"
    /\ StageSeq = << "ingest", "preprocess", "extract", "persist" >>
    /\ ~HasTitleOrSkills(JobDoc)
    /\ llm_calls = 1

NoTextError == Err("No text content after cleaning", << >>)

\* C5: when the raw text is empty or cleans to empty, the preprocess step stores
\* segments = {full_text: ""} and doc_stats = {}, appends exactly one error ("No text
\* content after cleaning"), and in a graph run the next state is the end of the run,
\* with no completion call made.
C5_EmptyTextShortCircuits ==
    [][ (pc = "preprocess" /\ clean_text(state["raw_text"]) = << >>) =>
            /\ state'["segmented"] = [k \in {"full_text"} |-> << >>]
            /\ state'["doc_stats"] = EmptyDict
            /\ state'["errors"] = Append(state["errors"], NoTextError)
            /\ driver \in GraphDrivers => (pc' = "end" /\ llm_calls' = 0 /\ Len(trace') = 2)
      ]_vars

\* a graph run whose text cleaned to nothing has ended after preprocess
C5_Witness ==
    /\ driver \in GraphDrivers
    /\ pc = "end"
    /\ JustReturned("preprocess")
    /\ state["raw_text"] # << >>
    /\ state["doc_stats"] = EmptyDict
    /\ Errors = << NoTextError >>
    /\ llm_calls = 0

IngestErrors == { Err("job_url is required", << >>),
                  Err("Either raw_text or extension_extracted is required", << >>) }

\* C6 (as stated): the streaming and the synchronous driver follow the transition rules
\* of the graph: no stage runs after an ingest that left errors, the completion service
\* is not invoked when the cleaned text has fewer than 100 characters, and summarize
\* does not run when the merged document has neither title nor required skills.
C6_EndpointsFollowTransitionRules ==
    driver \in {"stream", "sync"} =>
        /\ Len(trace) >= 2 => \A i \in 1..Len(Errors) : Errors[i] \notin IngestErrors
        /\ (Len(trace) >= 2 /\ StoredCharCount < 100) => llm_calls = 0
        /\ Ran("summarize") => HasTitleOrSkills(JobDoc)

\* C7: errors is append-only: in every step of every driver (graph, graph with the
\* persist stub, streaming, synchronous) the errors list before the step is a prefix of
\* the errors list after it.
C7_ErrorsAppendOnly == [][ IsPrefix(Errors, Errors') ]_vars

\* the persist stub has added its error behind an error recorded by extract
C7_Witness ==
    /\ driver = "graph_stub"
    /\ JustReturned("persist")
    /\ Len(Errors) >= 2
    /\ Errors[Len(Errors)] = Err("No database connection", << >>)

\* the completion given to extract is an exception or a text that is not JSON once the
\* fences are stripped
CompletionUnusable(llm) ==
    llm.raises \/ ~json_loads(ResponseText(llm)).ok

\* C8: when the completion call of extract raises, or its response is not valid JSON
\* after fence-stripping, the extract step returns normally, appends exactly one error,
\* stores an empty extraction result and a merged document equal to the client's
\* fields, and the run continues with the next stage.
C8_UnusableCompletionIsRecoverable ==
    [][ (pc = "extract" /\ llm_calls' = llm_calls + 1 /\ CompletionUnusable(last_llm')) =>
            /\ JustReturned("extract")'
            /\ IsPrefix(Errors, Errors') /\ Len(Errors') = Len(Errors) + 1
            /\ state'["comprehensive_analysis"] = EmptyAnalysis
            /\ state'["jobdoc"] = ClientFields
            /\ \A i \in 1..Len(state'["extraction_evidence"]) :
                   state'["extraction_evidence"][i].source = "extension"
            /\ pc' = IF driver \in GraphDrivers /\ ~HasTitleOrSkills(ClientFields)
                     THEN "persist" ELSE "summarize"
      ]_vars

\* extract has returned after a response that was not JSON: one error, client fields kept
C8_Witness ==
    /\ JustReturned("extract")
    /\ ~last_llm.raises /\ last_llm # NoLlm /\ CompletionUnusable(last_llm)
    /\ Len(Errors) = 1 /\ Errors[1].msg = "Failed to parse LLM response as JSON"
    /\ Analysis = EmptyAnalysis
    /\ JobDoc = ClientFields /\ DOMAIN JobDoc # {}
    /\ pc = "summarize"

\* C9 (as stated): extract never raises, whatever text the completion service returns.
C9_ExtractNeverRaises ==
    \A i \in 1..Len(trace) : trace[i].stage = "extract" => ~trace[i].raised

\* C10 (as stated): a response that wraps a payload in a json fence, in a bare fence or
\* in no fence gives the extract step the same outcome: the step taken on one wrapping
\* ends in the state that extract computes from each other wrapping of the same payload.
C10_FenceTolerance ==
    [][ (pc = "extract" /\ llm_calls' = llm_calls + 1 /\ ~last_llm'.raises) =>
            \A p \in Payloads, st \in FenceStyles :
                last_llm'.content = Wrap(p, st) =>
                    \A other \in FenceStyles :
                        LET o == extract_structured_fields(state, LlmReturns(Wrap(p, other)))
                        IN /\ o.raised = trace'[Len(trace')].raised
                           /\ ~o.raised => state' = Update(state, o.result)
      ]_vars

\* the jobdoc fields that the parsed response c supplies
SuppliedFields(c) == DOMAIN map_comprehensive_to_jobdoc(c, EmptyDict)

EvidenceEntries(source, f) ==
    { i \in 1..Len(state["extraction_evidence"]) :
        /\ state["extraction_evidence"][i].field = f
        /\ state["extraction_evidence"][i].source = source }

\* C11 (as stated): after extract has parsed a response, the evidence list holds exactly
\* one LLM-sourced entry for each field the response supplied and exactly one
\* client-sourced entry of confidence medium for each non-null client field.
C11_EvidencePerSuppliedField ==
    (JustReturned("extract") /\ last_llm # NoLlm) =>
        /\ \A f \in SuppliedFields(Analysis) :
               Cardinality(EvidenceEntries("llm_comprehensive", f)) = 1
        /\ \A f \in DOMAIN ClientFields :
               ClientFields[f] # None =>
                   /\ Cardinality(EvidenceEntries("extension", f)) = 1
                   /\ \A i \in EvidenceEntries("extension", f) :
                          state["extraction_evidence"][i].confidence = "medium"

\* the columns of the Job record that the merged document has a field for
JobColumns == PersistFields \cup {"location_city", "location_country"}

\* a value of the merged document that is neither null nor an empty string or list
HasValue(v) == v # None /\ v # Str("") /\ v # List(<< >>)

\* the persist step of the graph with a database finds the job record and flushes it
PersistWrites ==
    /\ driver = "graph_db" /\ pc = "persist" /\ pc' = "end"
    /\ state'["persisted"]

\* C12 (as stated): when persist finds the job record and writes it, every field of the
\* merged document that has a value (numeric 0 and location city/country included) is
\* on the record afterwards, and every record field the merged document has no value
\* for keeps its previous value.
C12_RecordOverriddenByMergedFields ==
    [][ PersistWrites =>
            /\ \A f \in JobColumns \cap DOMAIN JobDoc :
                   HasValue(JobDoc[f]) =>
                       f \in DOMAIN jobs'["job-1"] /\ jobs'["job-1"][f] = JobDoc[f]
            /\ \A f \in DOMAIN jobs["job-1"] :
                   ~HasValue(Get(JobDoc, f)) =>
                       f \in DOMAIN jobs'["job-1"] /\ jobs'["job-1"][f] = jobs["job-1"][f]
      ]_vars

\* the errors that the step being taken appends
NewErrors == SubSeq(Errors', Len(Errors) + 1, Len(Errors'))

JobRecordErrors == {"Database update failed", "Job not found in database"}

\* the step entered the search-index block: it assigned the index id or recorded the
\* failure of the block
IndexAttempted ==
    \/ state'["embedding_id"] # None
    \/ NewErrors # << >> /\ NewErrors[Len(NewErrors)].msg = "ChromaDB embedding failed"

IndexFailed ==
    \E i \in 1..Len(NewErrors) : NewErrors[i].msg = "ChromaDB embedding failed"

\* what C13 says apart from the attempt itself: persist returns normally, a failed
\* job-record write and a failed upsert each append one error, job-record error first
PersistFailuresRecorded ==
    /\ pc' = "end" /\ JustReturned("persist")'
    /\ IsPrefix(Errors, Errors') /\ Len(NewErrors) <= 2
    /\ ~state'["persisted"] => NewErrors # << >> /\ NewErrors[1].msg \in JobRecordErrors
    /\ IndexFailed => NewErrors[Len(NewErrors)].msg = "ChromaDB embedding failed"
    /\ (~state'["persisted"] /\ IndexFailed) =>
           /\ Len(NewErrors) = 2
           /\ NewErrors[1].msg \in JobRecordErrors
           /\ NewErrors[2].msg = "ChromaDB embedding failed"

\* C13 (as stated): in every persist step, a failed job-record write (exception or job
\* not found) appends an error and the search-index upsert is still attempted; a failed
\* upsert appends an error and persist returns normally; when both fail, both errors
\* are recorded, job-record error first.
C13_IndexAttemptedAfterFailedWrite ==
    [][ (driver = "graph_db" /\ pc = "persist") =>
            /\ PersistFailuresRecorded
            /\ ~state'["persisted"] => IndexAttempted
      ]_vars

\* C13 (amended): as above, with the upsert attempted after a failed job-record write
\* whenever the run has a non-empty summary, which is the only case in which persist
\* attempts the upsert at all; without a summary it is attempted in no case.
C13_PersistTargetsIndependent ==
    [][ (driver = "graph_db" /\ pc = "persist") =>
            /\ PersistFailuresRecorded
            /\ IndexAttempted <=> StateGet(state, "job_summary", << >>) # << >>
      ]_vars

\* persist has returned after both the job-record write and the upsert failed
C13_Witness ==
    /\ driver = "graph_db" /\ JustReturned("persist")
    /\ ~state["persisted"]
    /\ Len(Errors) >= 2
    /\ Errors[Len(Errors) - 1].msg \in JobRecordErrors
    /\ Errors[Len(Errors)].msg = "ChromaDB embedding failed"

\* C14: in the state returned by persist, persisted is true if and only if the job
\* record was found and its update flushed without an exception (no job-record error
\* was appended, and the record carries the update); whether the search-index upsert
\* succeeded or failed does not enter. Without a database persisted is false.
C14_PersistedReflectsJobRecordOnly ==
    [][ (driver \in GraphDrivers /\ pc = "persist") =>
            LET job_id == state["job_id"].s
                recordError == \E i \in 1..Len(NewErrors) : NewErrors[i].msg \in JobRecordErrors
            IN /\ state'["persisted"] <=>
                      (driver = "graph_db" /\ job_id \in DOMAIN jobs /\ ~recordError)
               /\ state'["persisted"] =>
                      \A f \in DOMAIN jobs'[job_id] \ {"embedding_id"} :
                          jobs'[job_id][f] =
                              UpdatedRow(jobs[job_id], JobDoc, StateGet(state, "job_summary", << >>))[f]
      ]_vars

\* persist has written the job record and the upsert has failed: persisted is true
C14_Witness ==
    /\ driver = "graph_db" /\ JustReturned("persist")
    /\ state["persisted"]
    /\ Errors # << >> /\ Errors[Len(Errors)].msg = "ChromaDB embedding failed"
    /\ "embedding_id" \notin DOMAIN jobs["job-1"]

\* the histories that get_job_intake_history may return for the job of the current run
Histories == get_job_intake_history(state["job_id"], checkpointer, checkpoints)

\* the stages of the checkpoints that the run with identifier run_id wrote
RECURSIVE StagesWrittenBy(_, _)
StagesWrittenBy(log, run_id) ==
    IF log = << >> THEN << >>
    ELSE (IF Head(log).run = run_id THEN << Head(log).stage >> ELSE << >>)
         \o StagesWrittenBy(Tail(log), run_id)

\* C15 (as stated): for a finished run that traversed ingest, preprocess, extract,
\* persist with a working checkpoint store, the history retrieved for it holds exactly
\* four checkpoints, tagged ingest, preprocess, extract, persist in that order, with
\* strictly increasing step numbers.
C15_HistoryOfFourStageRun ==
    \A r \in 1..run :
        (/\ driver \in GraphDrivers /\ checkpointer = "ready"
         /\ r < run \/ pc = "end"
         /\ StagesWrittenBy(checkpoints, RunIds[r]) = << "ingest", "preprocess", "extract", "persist" >>) =>
            \A h \in Histories :
                /\ [i \in 1..Len(h) |-> h[i].stage] = << "ingest", "preprocess", "extract", "persist" >>
                /\ \A i \in 1..(Len(h) - 1) : h[i].step < h[i + 1].step

\* C16 (as stated): the history retrieved for a run holds only checkpoints written by
\* that run (the run identifier generated at ingest), also when another run was made
\* for the same job.
C16_HistoryHoldsOneRun ==
    driver \in GraphDrivers =>
        \A h \in Histories :
            \A i \in 1..Len(h) : h[i].run = RunIds[run]

\* C17 (as stated): when the checkpoint store could not be initialized, a graph run is
\* not ended by the store (it leaves graph.invoke with an exception only when a stage
\* raised), no error about the store is recorded, and the history is empty.
C17_DegradedModeRunsNormally ==
    (driver \in GraphDrivers /\ checkpointer # "ready") =>
        /\ pc = "raised" => (trace # << >> /\ trace[Len(trace)].raised)
        /\ \A i \in 1..Len(Errors) : Errors[i].msg # "checkpoint"
        /\ \A h \in Histories : h = << >>

\* C18 (as stated): cleaning is idempotent; once preprocess has stored a full_text,
\* cleaning that full_text again gives the same full_text, also when the removal of a
\* UI-chrome phrase left two adjacent spaces or joined a new UI-chrome phrase.
C18_CleaningIdempotent ==
    (Ran("preprocess") /\ "segmented" \in DOMAIN state) =>
        clean_text(Section(state["segmented"], "full_text")) = Section(state["segmented"], "full_text")

IsTerminal(e) == e.status \in {"done", "failed"}

\* the k-th stage of the stream raised
StreamRaised(k) == k <= Len(trace) /\ trace[k].raised

\* C19: in a stream the events come in pairs (started, then complete or error) for the
\* stages ingest, preprocess, extract, summarize in that order; the pair ends in error
\* exactly when the stage raised; an error of ingest or preprocess is followed by failed,
\* an error of extract or summarize by the next stage or by done; a terminal event is
\* the last event, done comes only after all four stages, and a closed stream has one.
C19_StreamEventProtocol ==
    driver = "stream" =>
        LET n == Len(events)
            pairs == IF n > 0 /\ IsTerminal(events[n]) THEN (n - 1) \div 2 ELSE n \div 2
        IN /\ \A i \in 1..n : IsTerminal(events[i]) => i = n
           /\ pairs <= Len(Stages)
           /\ n \in {2 * pairs, 2 * pairs + 1}
           /\ \A k \in 1..pairs :
                /\ events[2 * k - 1] = Event(Stages[k], "started")
                /\ events[2 * k] = Event(Stages[k], IF StreamRaised(k) THEN "error" ELSE "complete")
                /\ (StreamRaised(k) /\ k <= 2) => (n = 2 * k + 1 /\ events[n].status = "failed")
                /\ (StreamRaised(k) /\ k > 2 /\ n > 2 * k) =>
                       events[2 * k + 1] = IF k < Len(Stages) THEN Event(Stages[k + 1], "started")
                                           ELSE Event("", "done")
           /\ (n > 0 /\ events[n].status = "done") => pairs = Len(Stages)
           /\ (n > 0 /\ events[n].status = "failed") => (StreamRaised(pairs) /\ pairs <= 2)
           /\ (pc = "closed" /\ http.status = 200) => (n > 0 /\ IsTerminal(events[n]))
           /\ (pc # "closed") => (n = 2 * pairs)

\* a closed stream in which extract raised and summarize still ran
C19_Witness ==
    /\ driver = "stream" /\ pc = "closed"
    /\ Len(trace) = 4 /\ trace[3].raised
    /\ Len(events) = 9 /\ events[6] = Event("extract", "error")
    /\ events[7] = Event("summarize", "started") /\ events[9].status = "done"

\* C20 (as stated): the synchronous endpoint answers 400 exactly when rawText is empty or
\* shorter than 100 characters, and otherwise 200 with the errors list in the body,
\* whatever the completion service does; it never answers with a 5xx.
C20_SyncNeverServerError ==
    (driver = "sync" /\ pc = "closed") =>
        /\ http.status = IF RejectsRequest(state) THEN 400 ELSE 200
        /\ http.status = 200 => "errors" \in DOMAIN http.body

(***************************************************************************)
(* routers/analyze.py : get_analysis_status                                 *)
(***************************************************************************)
\* the status the endpoint reports for the job: "completed" when job.summary is truthy
get_analysis_status(table, job_id) ==
    IF job_id \notin DOMAIN table THEN "not_found"
    ELSE IF "summary" \in DOMAIN table[job_id] /\ table[job_id]["summary"] # << >>
    THEN "completed"
    ELSE "pending"

\* C21 (as stated): once a run for a job has finished with persisted = true, a status
\* read for that job reports completed, also when the run stored no summary.
C21_PersistedReadsAsCompleted ==
    (driver = "graph_db" /\ pc = "end" /\ JustReturned("persist")
     /\ StateGet(state, "persisted", FALSE) = TRUE) =>
        get_analysis_status(jobs, state["job_id"].s) = "completed"

\* C24 (as stated): once preprocess has stored doc_stats for a non-empty cleaned text,
\* section_count equals the number of keys of segments other than full_text, and each
\* of those sections has more than 50 characters, also when a section name is matched
\* several times and a later, longer content replaces an earlier one.
C24_SectionCountIsNamedSections ==
    (Ran("preprocess") /\ "section_count" \in DOMAIN StateGet(state, "doc_stats", EmptyDict)) =>
        /\ state["doc_stats"]["section_count"] = Cardinality(DOMAIN state["segmented"] \ {"full_text"})
        /\ \A name \in DOMAIN state["segmented"] \ {"full_text"} :
               TextLen(state["segmented"][name]) > 50

(***************************************************************************)
(* routers/analyze.py : get_analysis_history                                *)
(***************************************************************************)
\* v[:n] + "..." if len(v) > n else v
Truncated(v, n) == IF TextLen(v) > n THEN TakeChars(v, n) \o << "..." >> ELSE v

\* analyze.py 298-330: the formatted entry of one checkpoint
FormatCheckpoint(checkpoint) ==
    LET channel_values == checkpoint.channel_values
        segments == StateGet(channel_values, "segments", EmptyDict)
        job_summary == StateGet(channel_values, "job_summary", << >>)
    IN [thread_id |-> checkpoint.thread_id,
        step |-> checkpoint.step,
        node |-> checkpoint.stage,
        state |-> [current_node |-> StateGet(channel_values, "current_node", "none"),
                   errors |-> StateGet(channel_values, "errors", << >>),
                   has_summary |-> job_summary # << >>,
                   summary_preview |-> IF job_summary # << >>
                                       THEN TakeChars(job_summary, 500) \o << "..." >>
                                       ELSE << >>,
                   segments |-> [k \in DOMAIN segments |-> Truncated(segments[k], 200)]]]

\* C25 (as stated): the formatted entry of every checkpoint carries the errors of its
\* snapshot, a summary preview of at most 500 characters plus the ellipsis when the
\* snapshot has a summary, and a segments preview that is non-empty whenever the
\* snapshot's segment map has a named section or a full text.
C25_HistoryShowsPreviews ==
    (driver \in GraphDrivers /\ checkpointer = "ready") =>
        \A h \in Histories : \A i \in 1..Len(h) :
            LET values == h[i].channel_values
                shown == FormatCheckpoint(h[i]).state
                segmented == StateGet(values, "segmented", EmptyDict)
            IN /\ shown.errors = StateGet(values, "errors", << >>)
               /\ StateGet(values, "job_summary", << >>) # << >> =>
                      TextLen(shown.summary_preview) <= 500 + 1
               /\ (\E k \in DOMAIN segmented : segmented[k] # << >>) =>
                      shown.segments # EmptyDict

\* C26 (as stated): no graph is compiled with a checkpointer whose setup() did not
\* complete; get_checkpointer returns None or a checkpointer that was set up.
C26_NoHalfInitializedCheckpointer ==
    driver \in GraphDrivers => saver \in {"none", "ready"}

\* C30 (as stated): summarize never raises; whenever generate_job_summary is run it
\* returns a state update, and a graph run goes on to persist.
C30_SummarizeNeverRaises ==
    \A i \in 1..Len(trace) : trace[i].stage = "summarize" => ~trace[i].raised

\* C28 (as stated): whenever a persist step appends a search-index failure to errors,
\* the embedding_id it returns is null.
C28_NoIndexHandleAfterFailedUpsert ==
    [][ (driver = "graph_db" /\ pc = "persist" /\ IndexFailed) =>
            state'["embedding_id"] = None
      ]_vars

\* C29 (as stated): in the extract event of the stream and in the synchronous response,
\* every field present in both the merged document and the confidence map is reported
\* with the source and confidence of an evidence entry whose value is the merged value.
C29_ConfidenceOfMergedValue ==
    (driver \in {"stream", "sync"} /\ "jobdoc" \in DOMAIN state) =>
        LET evidence == StateGet(state, "extraction_evidence", << >>)
            confidence_map == ConfidenceMap(evidence, EmptyDict)
        IN \A f \in DOMAIN state["jobdoc"] \cap DOMAIN confidence_map :
               \E i \in 1..Len(evidence) :
                   /\ evidence[i].field = f
                   /\ evidence[i].value = state["jobdoc"][f]
                   /\ evidence[i].source = confidence_map[f].source
                   /\ evidence[i].confidence = confidence_map[f].confidence

(***************************************************************************)
(* routers/analyze.py : two background runs for one job                     *)
(***************************************************************************)
\* a Job row that has required skills
JobRow1 == [JobRow0 EXCEPT !.required_skills = List(<< "python" >>)]

\* the completions the second run meets: [extract, summarize]
RivalCompletions ==
    [extract : { LlmReturns(<< "j_empty" >>), LlmReturns(<< "j_industry" >>), LlmReturns(<< "j_title_high" >>) },
     summarize : { LlmReturns(<< "BOLD", "TEXT" >>), LlmRaises }]

\* graph.invoke up to the persist node: [pc, state] where the run stands before persist,
\* or where it ended or raised
RECURSIVE RunToPersist(_, _, _)
RunToPersist(stage, st, llms) ==
    IF stage \notin StageNames THEN [pc |-> stage, state |-> st]
    ELSE LET out == RunNode(stage, st, IF stage \in DOMAIN llms THEN llms[stage] ELSE NoLlm)
         IN IF out.raised THEN [pc |-> "raised", state |-> st]
            ELSE RunToPersist(GraphEdge(stage, Update(st, out.result)), Update(st, out.result), llms)

\* the first trigger of analyze_job: the job has no summary, extension_extracted is built
\* from the Job row
InitRace ==
    /\ driver = "graph_db"
    /\ pc = "ingest"
    /\ jobs \in { [j \in {"job-1"} |-> row] : row \in {JobRow0, JobRow1} }
    /\ state = InitialState(Str("job-1"), Get(jobs["job-1"], "job_url"), << "W99", "W1" >>,
                            Dict(ExtensionFromJob(jobs["job-1"])))
    /\ llm_calls = 0
    /\ trace = << >>
    /\ last_llm = NoLlm
    /\ events = << >>
    /\ http = NoResponse
    /\ checkpointer = "none"
    /\ saver = "none"
    /\ checkpoints = << >>
    /\ run = 1
    /\ rival = NoRival
    /\ entries = NoEntries
    /\ callers = NoCallers

\* analyze_job is called again while the job has no summary: a second background run
\* starts, whatever the first run is doing, and runs up to its persist node
AnalyzeAgain ==
    /\ driver = "graph_db"
    /\ rival.pc = "idle"
    /\ get_analysis_status(jobs, state["job_id"].s) = "pending"
    /\ \E llms \in RivalCompletions :
         \E r \in { RunToPersist("ingest",
                                 InitialState(state["job_id"], Get(jobs[state["job_id"].s], "job_url"),
                                              state["raw_text"],
                                              Dict(ExtensionFromJob(jobs[state["job_id"].s]))),
                                 llms) } :
             rival' = [pc |-> r.pc, state |-> r.state, after_first |-> FALSE]
    /\ UNCHANGED << driver, pc, state, jobs, llm_calls, trace, last_llm, events, http,
                    checkpointer, saver, checkpoints, run, entries, callers >>

\* the persist node of the second run, on the shared Job table
RivalPersist ==
    /\ rival.pc = "persist"
    /\ \E env \in PersistEnvs :
         \E p \in { persist_job_artifacts(rival.state, TRUE, jobs, env) } :
             /\ jobs' = p.jobs
             /\ rival' = [pc |-> "end", state |-> Update(rival.state, p.result),
                          after_first |-> Ran("persist")]
    /\ UNCHANGED << driver, pc, state, llm_calls, trace, last_llm, events, http,
                    checkpointer, saver, checkpoints, run, entries, callers >>

NextRace ==
    \/ GraphIngest
    \/ GraphPreprocess
    \/ GraphExtract
    \/ GraphSummarize
    \/ GraphPersist
    \/ AnalyzeAgain
    \/ RivalPersist

SpecRace == InitRace /\ [][NextRace]_vars

\* both runs have finished and both wrote the job record
BothPersisted ==
    /\ pc = "end" /\ Ran("persist") /\ state["persisted"] = TRUE
    /\ rival.pc = "end" /\ rival.state["persisted"] = TRUE

\* the state of the run whose persist happened last
LastWriter == IF rival.after_first THEN rival.state ELSE state

Users == {"u1", "u2"}

Urls == {"url1", "url2"}

\* save requests served concurrently
MaxRequests == 3

\* every variable of the analysis pipeline at rest
PipelineIdle ==
    /\ driver = "none"
    /\ pc = "closed"
    /\ state = InitialState(Str(""), Str(""), << >>, Dict(EmptyDict))
    /\ jobs = EmptyDict
    /\ llm_calls = 0
    /\ trace = << >>
    /\ last_llm = NoLlm
    /\ events = << >>
    /\ http = NoResponse
    /\ checkpointer = "none"
    /\ saver = "none"
    /\ checkpoints = << >>
    /\ run = 1

InitSave ==
    /\ PipelineIdle
    /\ rival = NoRival
    /\ callers = NoCallers
    /\ \E reqs \in [1..MaxRequests -> [user : Users, url : Urls]] :
         entries = [saved_jobs |-> << >>,
                    saved_count |-> << >>,
                    requests |-> [r \in 1..MaxRequests |->
                                     [user |-> reqs[r].user, url |-> reqs[r].url, pc |-> "check",
                                      status |-> 0, new_job |-> FALSE, seen |-> 0]]]

\* a committed SavedJob row of the user for the job with this URL
Saved(user, url) ==
    \E i \in 1..Len(entries.saved_jobs) :
        entries.saved_jobs[i].user = user /\ entries.saved_jobs[i].url = url

\* create_entry_route 137-152: the existence check (the free-tier limit is not reached)
SaveCheck(r) ==
    /\ r \in DOMAIN entries.requests
    /\ entries.requests[r].pc = "check"
    /\ entries' = [entries EXCEPT !.requests[r] =
                     IF Saved(entries.requests[r].user, entries.requests[r].url)
                     THEN [@ EXCEPT !.pc = "done", !.status = 409]
                     ELSE [@ EXCEPT !.pc = "create"]]
    /\ UNCHANGED << driver, pc, state, jobs, llm_calls, trace, last_llm, events, http,
                    checkpointer, saver, checkpoints, run, rival, callers >>

\* get_or_create_job: the Job row is read, or built when there is none for the URL;
\* create_entry 183-196: job.saved_count as this session read it
SaveLoad(r) ==
    /\ r \in DOMAIN entries.requests
    /\ entries.requests[r].pc = "create"
    /\ entries' = [entries EXCEPT !.requests[r] =
                     [@ EXCEPT !.pc = "flush",
                               !.new_job = entries.requests[r].url \notin DOMAIN entries.saved_count,
                               !.seen = IF entries.requests[r].url \in DOMAIN entries.saved_count
                                        THEN entries.saved_count[entries.requests[r].url] ELSE 0]]
    /\ UNCHANGED << driver, pc, state, jobs, llm_calls, trace, last_llm, events, http,
                    checkpointer, saver, checkpoints, run, rival, callers >>

\* the rows this request writes break uq_user_job or the unique job_url
Conflicts(req) ==
    \/ Saved(req.user, req.url)
    \/ req.new_job /\ req.url \in DOMAIN entries.saved_count

\* create_entry 199 (flush) and create_entry_route 156-168 (commit, except IntegrityError).
\* The flush of a conflicting row raises IntegrityError inside create_entry, whose retry
\* decorator (crud.py 176, no reraise) calls it again on the failed session and after
\* three attempts raises RetryError: the except IntegrityError branch does not catch it
\* and the request ends as a server error with nothing written.
SaveCommit(r) ==
    /\ r \in DOMAIN entries.requests
    /\ entries.requests[r].pc = "flush"
    /\ \E req \in { entries.requests[r] } :
         entries' = IF Conflicts(req)
                    THEN [entries EXCEPT !.requests[r] = [@ EXCEPT !.pc = "done", !.status = 500]]
                    ELSE [saved_jobs |-> Append(entries.saved_jobs, [user |-> req.user, url |-> req.url]),
                          saved_count |-> Put(entries.saved_count, req.url, req.seen + 1),
                          requests |-> [entries.requests EXCEPT ![r] =
                                           [@ EXCEPT !.pc = "done", !.status = 200]]]
    /\ UNCHANGED << driver, pc, state, jobs, llm_calls, trace, last_llm, events, http,
                    checkpointer, saver, checkpoints, run, rival, callers >>

NextSave ==
    \/ \E r \in 1..MaxRequests : SaveCheck(r)
    \/ \E r \in 1..MaxRequests : SaveLoad(r)
    \/ \E r \in 1..MaxRequests : SaveCommit(r)

SpecSave == InitSave /\ [][NextSave]_vars

\* C23 (as stated): at most one SavedJob exists per user and job URL, and a save request
\* is answered 200 when it created the SavedJob and 409 otherwise, also when two requests
\* for the same user and URL race past the existence check; a request that is not
\* answered 200 leaves saved_jobs and saved_count unchanged.
C23_OneSavedJobPerUserAndUrl ==
    /\ \A i, j \in 1..Len(entries.saved_jobs) :
           entries.saved_jobs[i] = entries.saved_jobs[j] => i = j
    /\ \A r \in DOMAIN entries.requests :
           entries.requests[r].pc = "done" => entries.requests[r].status \in {200, 409}
    /\ Len(entries.saved_jobs) =
           Cardinality({r \in DOMAIN entries.requests : entries.requests[r].status = 200})

(***************************************************************************)
(* job_intake_graph.py : get_checkpointer called from several threads       *)
(***************************************************************************)
\* background runs that call get_checkpointer at the same time
MaxCallers == 3

\* DATABASE_URL is set; each caller is at the first line of get_checkpointer
InitCallers ==
    /\ PipelineIdle
    /\ rival = NoRival
    /\ entries = NoEntries
    /\ callers = [global |-> 0, connections |-> 0, savers |-> 0,
                  threads |-> [t \in 1..MaxCallers |-> [pc |-> "check", got |-> 0]]]

\* 52-59: "if _checkpointer is not None: return _checkpointer"
CallerCheck(t) ==
    /\ t \in DOMAIN callers.threads
    /\ callers.threads[t].pc = "check"
    /\ callers' = [callers EXCEPT !.threads[t] =
                     IF callers.global # 0
                     THEN [pc |-> "done", got |-> callers.global]
                     ELSE [pc |-> "connect", got |-> 0]]
    /\ UNCHANGED << driver, pc, state, jobs, llm_calls, trace, last_llm, events, http,
                    checkpointer, saver, checkpoints, run, rival, entries >>

\* 66-71: Connection.connect succeeds and opens a connection, or raises (return None)
CallerConnect(t) ==
    /\ t \in DOMAIN callers.threads
    /\ callers.threads[t].pc = "connect"
    /\ \/ callers' = [callers EXCEPT !.connections = @ + 1, !.threads[t].pc = "create"]
       \/ callers' = [callers EXCEPT !.threads[t].pc = "done"]
    /\ UNCHANGED << driver, pc, state, jobs, llm_calls, trace, last_llm, events, http,
                    checkpointer, saver, checkpoints, run, rival, entries >>

\* 73: _checkpointer = PostgresSaver(conn=_db_connection); savers are numbered from 1
CallerCreate(t) ==
    /\ t \in DOMAIN callers.threads
    /\ callers.threads[t].pc = "create"
    /\ callers' = [callers EXCEPT !.savers = @ + 1, !.global = callers.savers + 1,
                                  !.threads[t].pc = "setup"]
    /\ UNCHANGED << driver, pc, state, jobs, llm_calls, trace, last_llm, events, http,
                    checkpointer, saver, checkpoints, run, rival, entries >>

\* 76: _checkpointer.setup() returns, or raises (return None)
CallerSetup(t) ==
    /\ t \in DOMAIN callers.threads
    /\ callers.threads[t].pc = "setup"
    /\ \/ callers' = [callers EXCEPT !.threads[t].pc = "return"]
       \/ callers' = [callers EXCEPT !.threads[t].pc = "done"]
    /\ UNCHANGED << driver, pc, state, jobs, llm_calls, trace, last_llm, events, http,
                    checkpointer, saver, checkpoints, run, rival, entries >>

\* 79: "return _checkpointer" reads the global
CallerReturn(t) ==
    /\ t \in DOMAIN callers.threads
    /\ callers.threads[t].pc = "return"
    /\ callers' = [callers EXCEPT !.threads[t] = [pc |-> "done", got |-> callers.global]]
    /\ UNCHANGED << driver, pc, state, jobs, llm_calls, trace, last_llm, events, http,
                    checkpointer, saver, checkpoints, run, rival, entries >>

NextCallers ==
    \/ \E t \in 1..MaxCallers : CallerCheck(t)
    \/ \E t \in 1..MaxCallers : CallerConnect(t)
    \/ \E t \in 1..MaxCallers : CallerCreate(t)
    \/ \E t \in 1..MaxCallers : CallerSetup(t)
    \/ \E t \in 1..MaxCallers : CallerReturn(t)

SpecCallers == InitCallers /\ [][NextCallers]_vars

\* C27 (as stated): when several runs call get_checkpointer while no checkpointer exists,
\* at most one connection and one checkpointer are created, and every caller that
\* receives a checkpointer receives the same one.
C27_OneCheckpointerForAllCallers ==
    /\ callers.connections <= 1
    /\ callers.savers <= 1
    /\ \A t, u \in DOMAIN callers.threads :
           (callers.threads[t].got # 0 /\ callers.threads[u].got # 0) =>
               callers.threads[t].got = callers.threads[u].got


====
